---- MODULE Spec2Model ----
(***************************************************************************)
(* Model of generate_web_page.py: the in-page script it emits (the         *)
(* update-window filter, the client-side pagination of the upcoming        *)
(* hearings, their synchronisation with the URL query string and the       *)
(* session history, the iCalendar export) and the two display helpers      *)
(* format_display_date and get_event_time_display.                         *)
(*                                                                         *)
(* Strings that the program parses or rewrites are sequences of tokens:    *)
(* a page parameter, a date, a time or a calendar line is a sequence of    *)
(* one-character strings, a filter name is a sequence of words and         *)
(* separators ("last","_","7","_","days").                                 *)
(*                                                                         *)
(* The script is modelled function by function, as written in lines        *)
(* 424-778. As emitted it does not compile: lines 771-778 are a plain      *)
(* string, not an f-string, so the page holds `}}` and `}});` literally,   *)
(* the DOMContentLoaded callback is closed one brace early and the call    *)
(* `populateEventData();` stands inside the argument list of               *)
(* addEventListener. The model describes the script with that one brace    *)
(* removed.                                                                *)
(***************************************************************************)
EXTENDS Integers, Sequences, FiniteSets, TLC

(* ------------------------------ bounds --------------------------------- *)

MaxItems == 57
MaxHist == 2
PageArgBound == 6

(* --------------------------- program constants ------------------------- *)

\* ITEMS_PER_PAGE (Python) and `let itemsPerPage = 25` (script)
ITEMS_PER_PAGE == 25
itemsPerPage == 25

(* ------------------------------ vocabulary ----------------------------- *)

since_last_run == <<"since", "_", "last", "_", "run">>
last_7_days == <<"last", "_", "7", "_", "days">>
last_30_days == <<"last", "_", "30", "_", "days">>

\* the <option> values of <select id="updates-filter">
FilterOptions == {since_last_run, last_7_days, last_30_days}

\* the ids of the three pre-rendered <div class="updates-section">
SectionIds ==
  { <<"updates", "-", "since", "-", "last", "-", "run">>,
    <<"updates", "-", "last", "-", "7", "-", "days">>,
    <<"updates", "-", "last", "-", "30", "-", "days">> }

\* values of the filter query parameter that a URL may carry
FilterInputs ==
  FilterOptions \cup { <<>>, <<"bogus">>, <<"last", "-", "7", "-", "days">> }

\* values of the page query parameter that a URL may carry
PageInputs ==
  { <<>>, <<"0">>, <<"1">>, <<"2">>, <<"4">>, <<"9", "9">>, <<"-", "3">>,
    <<"a", "b">>, <<"3", "x">> }

\* a URL's query string, reduced to the two parameters the script uses
URLs ==
  { [hasFilter |-> TRUE, filter |-> f, hasPage |-> TRUE, page |-> p] :
      f \in FilterInputs, p \in PageInputs }
  \cup { [hasFilter |-> FALSE, filter |-> <<>>, hasPage |-> TRUE, page |-> p] :
      p \in PageInputs }
  \cup { [hasFilter |-> TRUE, filter |-> f, hasPage |-> FALSE, page |-> <<>>] :
      f \in FilterInputs }
  \cup { [hasFilter |-> FALSE, filter |-> <<>>, hasPage |-> FALSE, page |-> <<>>] }

\* values of updates_filter_value the generator is called with
DefaultFilters == {since_last_run, last_30_days}

\* numbers of upcoming hearings in the feed
ItemCounts == {0, 25, 26, MaxItems}

\* arguments of a direct call of window.showPage
PageArgs == (0 - PageArgBound)..PageArgBound

(* ------------------------------- helpers ------------------------------- *)

Max(a, b) == IF a >= b THEN a ELSE b
Min(a, b) == IF a <= b THEN a ELSE b

\* variant: the quotient is rounded down
CeilDiv_floor(a, b) == a \div b

\* Math.ceil(totalItems / itemsPerPage) for totalItems >= 0
CeilDiv(a, b) == (a + b - 1) \div b

\* total_pages = math.ceil(total_upcoming / ITEMS_PER_PAGE)
total_pages(total_upcoming) == CeilDiv(total_upcoming, ITEMS_PER_PAGE)

DecDigits == {"0", "1", "2", "3", "4", "5", "6", "7", "8", "9"}
HexDigits == DecDigits \cup {"a", "b", "c", "d", "e", "f"}

DigitVal(c) ==
  CASE c = "0" -> 0 [] c = "1" -> 1 [] c = "2" -> 2 [] c = "3" -> 3
    [] c = "4" -> 4 [] c = "5" -> 5 [] c = "6" -> 6 [] c = "7" -> 7
    [] c = "8" -> 8 [] c = "9" -> 9 [] c = "a" -> 10 [] c = "b" -> 11
    [] c = "c" -> 12 [] c = "d" -> 13 [] c = "e" -> 14 [] c = "f" -> 15

DigitChar(d) ==
  CASE d = 0 -> "0" [] d = 1 -> "1" [] d = 2 -> "2" [] d = 3 -> "3"
    [] d = 4 -> "4" [] d = 5 -> "5" [] d = 6 -> "6" [] d = 7 -> "7"
    [] d = 8 -> "8" [] d = 9 -> "9"

RECURSIVE SkipSpaces(_)
SkipSpaces(s) ==
  IF s # <<>> /\ Head(s) = " " THEN SkipSpaces(Tail(s)) ELSE s

\* value of the longest prefix of s made of digits of the radix; acc is the
\* value so far and seen tells whether a digit was consumed
RECURSIVE ParseDigits(_, _, _, _, _)
ParseDigits(s, digits, radix, acc, seen) ==
  IF s # <<>> /\ Head(s) \in digits
    THEN ParseDigits(Tail(s), digits, radix, acc * radix + DigitVal(Head(s)), TRUE)
    ELSE [nan |-> ~seen, val |-> acc]

\* parseInt(string) of the script: leading blanks, a sign, an 0x prefix,
\* then the longest run of digits; NaN when there is none
parseInt(s) ==
  LET t == SkipSpaces(s)
      neg == t # <<>> /\ Head(t) = "-"
      u == IF t # <<>> /\ Head(t) \in {"-", "+"} THEN Tail(t) ELSE t
      hex == Len(u) >= 2 /\ u[1] = "0" /\ u[2] = "x"
      r == IF hex
             THEN ParseDigits(Tail(Tail(u)), HexDigits, 16, 0, FALSE)
             ELSE ParseDigits(u, DecDigits, 10, 0, FALSE)
  IN  [nan |-> r.nan, val |-> IF neg THEN 0 - r.val ELSE r.val]

\* String(number) as URLSearchParams.set writes it
RECURSIVE NatToString(_)
NatToString(k) ==
  IF k < 10 THEN <<DigitChar(k)>>
  ELSE Append(NatToString(k \div 10), DigitChar(k % 10))

NumberToString(k) ==
  IF k < 0 THEN <<"-">> \o NatToString(0 - k) ELSE NatToString(k)

\* URLSearchParams.get(name): null when the parameter is absent
SearchGet(u, name) ==
  IF name = "filter"
    THEN [isNull |-> ~u.hasFilter, s |-> u.filter]
    ELSE [isNull |-> ~u.hasPage, s |-> u.page]

\* variant: the parameter is never found, so the default always wins
FilterFromURL_defaultOnly(u, dflt) == dflt

\* urlParams.get('filter') || '{updates_filter_value}'
FilterFromURL(u, dflt) ==
  LET g == SearchGet(u, "filter")
  IN  IF g.isNull \/ g.s = <<>> THEN dflt ELSE g.s

\* parseInt(urlParams.get('page')) || 1
PageFromURL(u) ==
  LET g == SearchGet(u, "page")
      r == IF g.isNull THEN [nan |-> TRUE, val |-> 0] ELSE parseInt(g.s)
  IN  IF r.nan \/ r.val = 0 THEN 1 ELSE r.val

\* variant: the lower clamp is missing
ClampPage_noLower(page, total) == Min(page, total)

\* Math.max(1, Math.min(page, totalPages))
ClampPage(page, total) == Max(1, Min(page, total))

\* filterSelect.value = v: a value that is no option leaves nothing selected
SelectAssign(v) == IF v \in FilterOptions THEN v ELSE <<>>

RECURSIVE filterNameToId(_)
filterNameToId(name) ==
  IF name = <<>> THEN <<>>
  ELSE <<IF Head(name) = "_" THEN "-" ELSE Head(name)>> \o filterNameToId(Tail(name))

showUpdatesSection(sectionName) ==
  LET target == <<"updates", "-">> \o filterNameToId(sectionName)
  IN  IF target \in SectionIds THEN {target} ELSE {}

\* variant: page 1 is written instead of omitted
updateURL_url_keepPageOne(u, filter, page) ==
  IF page >= 1
    THEN [hasFilter |-> TRUE, filter |-> filter,
          hasPage |-> TRUE, page |-> NumberToString(page)]
    ELSE [hasFilter |-> TRUE, filter |-> filter,
          hasPage |-> FALSE, page |-> <<>>]

\* variant: the page is written zero-based
updateURL_url_zeroBased(u, filter, page) ==
  IF page > 1
    THEN [hasFilter |-> TRUE, filter |-> filter,
          hasPage |-> TRUE, page |-> NumberToString(page - 1)]
    ELSE [hasFilter |-> TRUE, filter |-> filter,
          hasPage |-> FALSE, page |-> <<>>]

\* variant: only the page parameter is written
updateURL_url_pageOnly(u, filter, page) ==
  IF page > 1
    THEN [hasFilter |-> u.hasFilter, filter |-> u.filter,
          hasPage |-> TRUE, page |-> NumberToString(page)]
    ELSE [hasFilter |-> u.hasFilter, filter |-> u.filter,
          hasPage |-> FALSE, page |-> <<>>]

\* url.searchParams.set('filter', ..); set or delete 'page'
updateURL_url(u, filter, page) ==
  IF page > 1
    THEN [hasFilter |-> TRUE, filter |-> filter,
          hasPage |-> TRUE, page |-> NumberToString(page)]
    ELSE [hasFilter |-> TRUE, filter |-> filter,
          hasPage |-> FALSE, page |-> <<>>]

\* variant: history.pushState, which drops the forward entries and appends
replaceState_push(h, i, u) == Append(SubSeq(h, 1, i), u)

\* window.history.replaceState({}, '', url)
replaceState(h, i, u) == [h EXCEPT ![i] = u]

updateURL(h, i, filter, page) == replaceState(h, i, updateURL_url(h[i], filter, page))

\* the forEach loop of showPage
showPage_display(n, page) ==
  LET startIndex == (page - 1) * itemsPerPage
      endIndex == startIndex + itemsPerPage
  IN  [index \in 0..(n - 1) |->
         IF index >= startIndex /\ index < endIndex THEN "block" ELSE "none"]

\* variant: the slice includes the card at endIndex
showPageWithoutURLUpdate_display_inclusive(n, page) ==
  LET startIndex == (page - 1) * itemsPerPage
      endIndex == startIndex + itemsPerPage
  IN  [index \in 0..(n - 1) |->
         IF index >= startIndex /\ index <= endIndex THEN "block" ELSE "none"]

\* the forEach loop of showPageWithoutURLUpdate
showPageWithoutURLUpdate_display(n, page) ==
  LET startIndex == (page - 1) * itemsPerPage
      endIndex == startIndex + itemsPerPage
  IN  [index \in 0..(n - 1) |->
         IF index >= startIndex /\ index < endIndex THEN "block" ELSE "none"]

\* generate_pagination_html emits the <ul class="pagination"> only when the
\* page count computed at generation time exceeds 1
HasPaginationContainer(n) == CeilDiv(n, ITEMS_PER_PAGE) > 1

RECURSIVE Range(_, _)
Range(a, b) == IF a > b THEN <<>> ELSE <<a>> \o Range(a + 1, b)

\* the targets of the page links written into #page-numbers
PageLinks(cur, total) ==
  LET startPage == Max(1, cur - 2)
      endPage == Min(total, cur + 2)
  IN  (IF startPage > 1 THEN <<1>> ELSE <<>>)
      \o Range(startPage, endPage)
      \o (IF endPage < total THEN <<total>> ELSE <<>>)

\* variant: Next stays enabled on the last page
updatePagination_nextAtEnd(n, cur, total, p) ==
  IF ~HasPaginationContainer(n) THEN p
  ELSE IF total <= 1 THEN [p EXCEPT !.shown = "none"]
  ELSE [shown |-> "block",
        prev |-> IF cur > 1 THEN "go" ELSE "noop",
        next |-> IF cur <= total THEN "go" ELSE "noop",
        links |-> PageLinks(cur, total)]

\* updatePagination: p is the state of the pagination controls
updatePagination(n, cur, total, p) ==
  IF ~HasPaginationContainer(n) THEN p
  ELSE IF total <= 1 THEN [p EXCEPT !.shown = "none"]
  ELSE [shown |-> "block",
        prev |-> IF cur > 1 THEN "go" ELSE "noop",
        next |-> IF cur < total THEN "go" ELSE "noop",
        links |-> PageLinks(cur, total)]

(* ------------------------------- text ---------------------------------- *)

\* Text is a sequence of UTF-16 code units, as String.length counts them: one
\* unit per character here, "CR" and "LF" for the two line-break characters,
\* "e-acute" and "euro" for two characters outside ASCII.

\* number of octets of one code unit in the UTF-8 file
Octets(c) == CASE c = "e-acute" -> 2 [] c = "euro" -> 3 [] OTHER -> 1

\* the UTF-8 octets of one code unit, each octet a token
UTF8(c) ==
  CASE c = "e-acute" -> <<"xC3", "xA9">>
    [] c = "euro" -> <<"xE2", "x82", "xAC">>
    [] OTHER -> <<c>>

\* the concatenation of parts[lo], ..., parts[hi]
RECURSIVE Flatten(_, _, _)
Flatten(parts, lo, hi) ==
  IF lo > hi THEN <<>>
  ELSE IF lo = hi THEN parts[lo]
  ELSE LET mid == (lo + hi) \div 2
       IN  Flatten(parts, lo, mid) \o Flatten(parts, mid + 1, hi)

\* encodeURIComponent(text) read back by the browser from the data: URL
encodeURIComponent(text) ==
  Flatten([i \in 1..Len(text) |-> UTF8(text[i])], 1, Len(text))

\* array.join(sep)
RECURSIVE Join(_, _)
Join(parts, sep) ==
  IF parts = <<>> THEN <<>>
  ELSE IF Len(parts) = 1 THEN parts[1]
  ELSE parts[1] \o sep \o Join(Tail(parts), sep)

\* string.substring(from) and string.substring(0, to), indices from 0
SubstringFrom(s, from) == SubSeq(s, Min(from, Len(s)) + 1, Len(s))
SubstringTo(s, to) == SubSeq(s, 1, Min(to, Len(s)))

\* string.split('T')[0]: the text before the first "T"
BeforeT(s) ==
  LET ts == {i \in 1..Len(s) : s[i] = "T"}
  IN  IF ts = {} THEN s
      ELSE SubSeq(s, 1, (CHOOSE i \in ts : \A j \in ts : i <= j) - 1)

\* number.toString().padStart(2, '0')
PadStart2(k) == IF k < 10 THEN <<"0">> \o NatToString(k) ELSE NatToString(k)

\* a four-digit year as toISOString writes it
Pad4(k) ==
  <<DigitChar(k \div 1000), DigitChar((k \div 100) % 10),
    DigitChar((k \div 10) % 10), DigitChar(k % 10)>>

AllDigits(s) == \A i \in 1..Len(s) : s[i] \in DecDigits

RECURSIVE DigitsValue(_)
DigitsValue(s) ==
  IF s = <<>> THEN 0
  ELSE DigitsValue(SubSeq(s, 1, Len(s) - 1)) * 10 + DigitVal(s[Len(s)])

(* ------------------------------- Date ---------------------------------- *)

\* A Date is [valid, t]: t is the time value in seconds since the epoch (the
\* inputs carry no fractions of a second); an Invalid Date has valid = FALSE.

InvalidDate == [valid |-> FALSE, t |-> 0]

IsLeap(y) == (y % 4 = 0 /\ y % 100 # 0) \/ y % 400 = 0

DaysInMonth(y, m) ==
  CASE m \in {1, 3, 5, 7, 8, 10, 12} -> 31
    [] m \in {4, 6, 9, 11} -> 30
    [] OTHER -> IF IsLeap(y) THEN 29 ELSE 28

\* days from 1970-01-01 to the civil date y-m-d
DaysFromCivil(y, m, d) ==
  LET yy == IF m <= 2 THEN y - 1 ELSE y
      era == yy \div 400
      yoe == yy - era * 400
      mp == (m + 9) % 12
      doy == (153 * mp + 2) \div 5 + d - 1
      doe == yoe * 365 + yoe \div 4 - yoe \div 100 + doy
  IN  era * 146097 + doe - 719468

\* the civil date of a day number
CivilFromDays(z) ==
  LET zz == z + 719468
      era == zz \div 146097
      doe == zz - era * 146097
      yoe == (doe - doe \div 1460 + doe \div 36524 - doe \div 146096) \div 365
      doy == doe - (365 * yoe + yoe \div 4 - yoe \div 100)
      mp == (5 * doy + 2) \div 153
      d == doy - (153 * mp + 2) \div 5 + 1
      m == IF mp < 10 THEN mp + 3 ELSE mp - 9
      y == yoe + era * 400 + (IF m <= 2 THEN 1 ELSE 0)
  IN  [y |-> y, m |-> m, d |-> d]

\* new Date(string) for a date-time string without offset, which is read as
\* local time: YYYY-MM-DDTHH:mm or YYYY-MM-DDTHH:mm:ss with every field in
\* range; any other text gives an Invalid Date. (A day past the end of its
\* month, which browsers read differently, is not among the inputs.)
NewDate(s, tz) ==
  LET shape ==
        /\ Len(s) \in {16, 19}
        /\ AllDigits(SubSeq(s, 1, 4)) /\ s[5] = "-"
        /\ AllDigits(SubSeq(s, 6, 7)) /\ s[8] = "-"
        /\ AllDigits(SubSeq(s, 9, 10)) /\ s[11] = "T"
        /\ AllDigits(SubSeq(s, 12, 13)) /\ s[14] = ":"
        /\ AllDigits(SubSeq(s, 15, 16))
        /\ Len(s) = 19 => (s[17] = ":" /\ AllDigits(SubSeq(s, 18, 19)))
      y == DigitsValue(SubSeq(s, 1, 4))
      m == DigitsValue(SubSeq(s, 6, 7))
      d == DigitsValue(SubSeq(s, 9, 10))
      hh == DigitsValue(SubSeq(s, 12, 13))
      mi == DigitsValue(SubSeq(s, 15, 16))
      ss == IF Len(s) = 19 THEN DigitsValue(SubSeq(s, 18, 19)) ELSE 0
  IN  IF ~shape THEN InvalidDate
      ELSE IF ~(m \in 1..12 /\ hh \in 0..23 /\ mi \in 0..59 /\ ss \in 0..59)
        THEN InvalidDate
      ELSE IF ~(d \in 1..DaysInMonth(y, m)) THEN InvalidDate
      ELSE [valid |-> TRUE,
            t |-> DaysFromCivil(y, m, d) * 86400 + hh * 3600 + mi * 60 + ss
                  - tz * 60]

\* date.toISOString().replace(/[-:]/g, '').split('.')[0] + 'Z' of a valid Date
ISOBasic(t) ==
  LET c == CivilFromDays(t \div 86400)
      r == t % 86400
  IN  Pad4(c.y) \o PadStart2(c.m) \o PadStart2(c.d) \o <<"T">>
        \o PadStart2(r \div 3600) \o PadStart2((r \div 60) % 60)
        \o PadStart2(r % 60) \o <<"Z">>

(* --------------------------- calendar export --------------------------- *)

\* the match of /(\d{1,2}):(\d{2})\s*(AM|PM)/i starting at position i, the
\* hour taking n digits
TimeMatchAt(s, i, n) ==
  LET j == i + n + 3
      rest == SkipSpaces(SubSeq(s, j, Len(s)))
  IN  IF /\ i + n + 2 <= Len(s)
         /\ AllDigits(SubSeq(s, i, i + n - 1))
         /\ s[i + n] = ":"
         /\ AllDigits(SubSeq(s, i + n + 1, i + n + 2))
         /\ Len(rest) >= 2
         /\ rest[1] \in {"A", "a", "P", "p"}
         /\ rest[2] \in {"M", "m"}
        THEN [found |-> TRUE,
              hours |-> DigitsValue(SubSeq(s, i, i + n - 1)),
              minutes |-> DigitsValue(SubSeq(s, i + n + 1, i + n + 2)),
              ampm |-> IF rest[1] \in {"A", "a"} THEN "AM" ELSE "PM"]
        ELSE [found |-> FALSE, hours |-> 0, minutes |-> 0, ampm |-> "AM"]

\* timeStr.match(...): the leftmost match, two hour digits tried before one
RECURSIVE TimeMatchFrom(_, _)
TimeMatchFrom(s, i) ==
  IF i > Len(s) THEN TimeMatchAt(s, i, 1)
  ELSE IF TimeMatchAt(s, i, 2).found THEN TimeMatchAt(s, i, 2)
  ELSE IF TimeMatchAt(s, i, 1).found THEN TimeMatchAt(s, i, 1)
  ELSE TimeMatchFrom(s, i + 1)

TimeMatch(s) == TimeMatchFrom(s, 1)

\* variant: 12 AM is left at hour 12
parseEventDateTime_noMidnight(dateStr, timeStr, now, tz) ==
  IF dateStr = <<>> THEN [valid |-> TRUE, t |-> now]
  ELSE
    LET datePart == BeforeT(dateStr)
        timeParts == TimeMatch(timeStr)
        hours == IF timeParts.ampm = "PM" /\ timeParts.hours # 12
                   THEN timeParts.hours + 12
                 ELSE timeParts.hours
        timeString == PadStart2(hours) \o <<":">> \o PadStart2(timeParts.minutes)
                        \o <<":", "0", "0">>
    IN  IF timeStr = <<>> THEN NewDate(datePart \o <<"T", "1", "2", ":", "0", "0", ":", "0",
                                                     "0">>, tz)
        ELSE IF timeParts.found THEN NewDate(datePart \o <<"T">> \o timeString, tz)
        ELSE NewDate(datePart \o <<"T">> \o timeStr, tz)

\* parseEventDateTime(dateStr, timeStr); now is the value of `new Date()`.
\* The Date constructor never throws, so the catch branch is never taken.
parseEventDateTime(dateStr, timeStr, now, tz) ==
  IF dateStr = <<>> THEN [valid |-> TRUE, t |-> now]
  ELSE
    LET datePart == BeforeT(dateStr)
        timeParts == TimeMatch(timeStr)
        hours == IF timeParts.ampm = "PM" /\ timeParts.hours # 12
                   THEN timeParts.hours + 12
                 ELSE IF timeParts.ampm = "AM" /\ timeParts.hours = 12
                   THEN 0
                 ELSE timeParts.hours
        timeString == PadStart2(hours) \o <<":">> \o PadStart2(timeParts.minutes)
                        \o <<":", "0", "0">>
    IN  IF timeStr = <<>> THEN NewDate(datePart \o <<"T", "1", "2", ":", "0", "0", ":", "0",
                                                     "0">>, tz)
        ELSE IF timeParts.found THEN NewDate(datePart \o <<"T">> \o timeString, tz)
        ELSE NewDate(datePart \o <<"T">> \o timeStr, tz)

\* the widths wrapICalLine cuts at
WrapFirst == 75
WrapNext == 74

\* the while loop of wrapICalLine
RECURSIVE WrapLoop(_, _)
WrapLoop(wrapped, remaining) ==
  IF Len(remaining) > 0
    THEN WrapLoop(wrapped \o <<"CR", "LF", " ">> \o SubstringTo(remaining, WrapNext),
                  SubstringFrom(remaining, WrapNext))
    ELSE wrapped

\* variant: the first cut keeps 74 code units and drops the 75th
wrapICalLine_cutAt74(line) ==
  IF Len(line) <= WrapFirst THEN line
  ELSE WrapLoop(SubstringTo(line, WrapNext), SubstringFrom(line, WrapFirst))

\* wrapICalLine(line)
wrapICalLine(line) ==
  IF Len(line) <= WrapFirst THEN line
  ELSE WrapLoop(SubstringTo(line, WrapFirst), SubstringFrom(line, WrapFirst))

\* milliseconds of the assumed duration, and the same in seconds
DurationMs == 60 * 60 * 1000
DurationS == DurationMs \div 1000

\* generateICalendar(event), now and now2 being the two readings of the clock;
\* an Invalid Date makes toISOString throw a
\* RangeError, which nothing in the function catches
generateICalendar(event, now, now2, tz) ==
  LET timestamp == ISOBasic(now)
      eventDateTime == parseEventDateTime(event.EventDate, event.EventTime, now2, tz)
      startTime == ISOBasic(eventDateTime.t)
      endTime == ISOBasic(eventDateTime.t + DurationS)
      uid == startTime \o <<"-">> \o NumberToString(event.EventId)
               \o <<"@", "l", "e", "g", "i", "s", "t", "a", "r", "-", "m", "o", "n", "i", "t",
                    "o", "r", ".", "g", "i", "t", "h", "u", "b", ".", "i", "o">>
      topic == IF event.SyntheticMeetingTopic # <<>>
                 THEN event.SyntheticMeetingTopic
                 ELSE <<"N", "Y", "C", " ", "C", "o", "u", "n", "c", "i", "l", " ", "H", "e",
                        "a", "r", "i", "n", "g">>
      description == IF event.EventComment # <<>>
                       THEN topic \o <<"LF", "LF", "C", "o", "m", "m", "e", "n", "t", ":",
                                       " ">> \o event.EventComment
                       ELSE topic
      place == IF event.EventLocation # <<>> THEN event.EventLocation ELSE <<"T", "B", "D">>
      ical == << <<"B", "E", "G", "I", "N", ":", "V", "C", "A", "L", "E", "N", "D", "A", "R">>,
                 <<"V", "E", "R", "S", "I", "O", "N", ":", "2", ".", "0">>,
                 <<"P", "R", "O", "D", "I", "D", ":", "-", "/", "/", "N", "Y", "C", " ", "L",
                   "e", "g", "i", "s", "t", "a", "r", " ", "M", "o", "n", "i", "t", "o", "r",
                   "/", "/", "H", "e", "a", "r", "i", "n", "g", " ", "C", "a", "l", "e", "n",
                   "d", "a", "r", " ", "1", ".", "0", "/", "/", "E", "N">>,
                 <<"M", "E", "T", "H", "O", "D", ":", "P", "U", "B", "L", "I", "S", "H">>,
                 <<"B", "E", "G", "I", "N", ":", "V", "E", "V", "E", "N", "T">>,
                 <<"U", "I", "D", ":">> \o uid,
                 <<"D", "T", "S", "T", "A", "M", "P", ":">> \o timestamp,
                 <<"D", "T", "S", "T", "A", "R", "T", ":">> \o startTime,
                 <<"D", "T", "E", "N", "D", ":">> \o endTime,
                 wrapICalLine(<<"S", "U", "M", "M", "A", "R", "Y", ":">> \o event.EventBodyName),
                 wrapICalLine(<<"D", "E", "S", "C", "R", "I", "P", "T", "I", "O", "N",
                                ":">> \o description),
                 wrapICalLine(<<"L", "O", "C", "A", "T", "I", "O", "N", ":">> \o place),
                 <<"E", "N", "D", ":", "V", "E", "V", "E", "N", "T">>,
                 <<"E", "N", "D", ":", "V", "C", "A", "L", "E", "N", "D", "A", "R">> >>
  IN  IF ~eventDateTime.valid
        THEN [threw |-> TRUE, text |-> <<>>]
        ELSE [threw |-> FALSE, text |-> Join(ical, <<"CR", "LF">>)]

(* ---------------------------- sample hearings -------------------------- *)

\* event_data of upcoming hearings; the empty text stands for a missing or
\* empty field

\* a hearing as Legistar delivers it
MorningEntry ==
  [EventId |-> 12,
   EventBodyName |-> <<"C", "o", "m", "m", "i", "t", "t", "e", "e", " ", "o", "n", " ", "F",
                       "i", "n", "a", "n", "c", "e">>,
   EventDate |-> <<"2", "0", "2", "4", "-", "0", "3", "-", "0", "5", "T", "0", "0", ":", "0",
                   "0", ":", "0", "0">>,
   EventTime |-> <<"1", "0", ":", "0", "0", " ", "A", "M">>,
   EventLocation |-> <<"C", "o", "u", "n", "c", "i", "l", " ", "C", "h", "a", "m", "b", "e",
                       "r", "s", " ", "-", " ", "C", "i", "t", "y", " ", "H", "a", "l", "l">>,
   SyntheticMeetingTopic |-> <<"O", "v", "e", "r", "s", "i", "g", "h", "t", " ", "-", " ", "B",
                               "u", "d", "g", "e", "t">>,
   EventComment |-> <<>>]

\* an afternoon hearing with a comment, no topic and no location
AfternoonEntry ==
  [EventId |-> 12,
   EventBodyName |-> <<"C", "o", "m", "m", "i", "t", "t", "e", "e", " ", "o", "n", " ", "H",
                       "e", "a", "l", "t", "h">>,
   EventDate |-> <<"2", "0", "2", "4", "-", "0", "3", "-", "0", "5", "T", "0", "0", ":", "0",
                   "0", ":", "0", "0">>,
   EventTime |-> <<"2", ":", "3", "0", " ", "P", "M">>,
   EventLocation |-> <<>>,
   SyntheticMeetingTopic |-> <<>>,
   EventComment |-> <<"J", "o", "i", "n", "t", "l", "y", " ", "w", "i", "t", "h", " ", "F", "i",
                      "n", "a", "n", "c", "e">>]

\* 12:15 PM stays in hour 12
NoonEntry ==
  [EventId |-> 12,
   EventBodyName |-> <<"C", "o", "m", "m", "i", "t", "t", "e", "e", " ", "o", "n", " ", "P",
                       "a", "r", "k", "s">>,
   EventDate |-> <<"2", "0", "2", "4", "-", "1", "2", "-", "3", "1", "T", "0", "0", ":", "0",
                   "0", ":", "0", "0">>,
   EventTime |-> <<"1", "2", ":", "1", "5", " ", "P", "M">>,
   EventLocation |-> <<"C", "i", "t", "y", " ", "H", "a", "l", "l">>,
   SyntheticMeetingTopic |-> <<>>,
   EventComment |-> <<>>]

\* 12:05 AM is hour 0
MidnightEntry ==
  [EventId |-> 12,
   EventBodyName |-> <<"C", "o", "m", "m", "i", "t", "t", "e", "e", " ", "o", "n", " ", "P",
                       "a", "r", "k", "s">>,
   EventDate |-> <<"2", "0", "2", "4", "-", "0", "2", "-", "2", "9", "T", "0", "0", ":", "0",
                   "0", ":", "0", "0">>,
   EventTime |-> <<"1", "2", ":", "0", "5", " ", "a", "m">>,
   EventLocation |-> <<"C", "i", "t", "y", " ", "H", "a", "l", "l">>,
   SyntheticMeetingTopic |-> <<>>,
   EventComment |-> <<>>]

\* an evening hearing, which ends on the next UTC day west of Greenwich
LateEntry ==
  [EventId |-> 12,
   EventBodyName |-> <<"C", "o", "m", "m", "i", "t", "t", "e", "e", " ", "o", "n", " ", "P",
                       "a", "r", "k", "s">>,
   EventDate |-> <<"2", "0", "2", "4", "-", "0", "2", "-", "2", "9", "T", "0", "0", ":", "0",
                   "0", ":", "0", "0">>,
   EventTime |-> <<"1", "1", ":", "3", "0", " ", "P", "M">>,
   EventLocation |-> <<"C", "i", "t", "y", " ", "H", "a", "l", "l">>,
   SyntheticMeetingTopic |-> <<>>,
   EventComment |-> <<>>]

\* no time of day
NoTimeEntry ==
  [EventId |-> 12,
   EventBodyName |-> <<"C", "o", "m", "m", "i", "t", "t", "e", "e", " ", "o", "n", " ", "F",
                       "i", "n", "a", "n", "c", "e">>,
   EventDate |-> <<"2", "0", "2", "4", "-", "0", "3", "-", "0", "5", "T", "0", "0", ":", "0",
                   "0", ":", "0", "0">>,
   EventTime |-> <<>>,
   EventLocation |-> <<"C", "i", "t", "y", " ", "H", "a", "l", "l">>,
   SyntheticMeetingTopic |-> <<>>,
   EventComment |-> <<>>]

\* a 24-hour time, which the AM/PM pattern does not match
ClockEntry ==
  [EventId |-> 12,
   EventBodyName |-> <<"C", "o", "m", "m", "i", "t", "t", "e", "e", " ", "o", "n", " ", "F",
                       "i", "n", "a", "n", "c", "e">>,
   EventDate |-> <<"2", "0", "2", "4", "-", "0", "3", "-", "0", "5">>,
   EventTime |-> <<"1", "4", ":", "3", "0">>,
   EventLocation |-> <<"C", "i", "t", "y", " ", "H", "a", "l", "l">>,
   SyntheticMeetingTopic |-> <<>>,
   EventComment |-> <<>>]

\* a time that is no time of day
BadTimeEntry ==
  [EventId |-> 12,
   EventBodyName |-> <<"C", "o", "m", "m", "i", "t", "t", "e", "e", " ", "o", "n", " ", "F",
                       "i", "n", "a", "n", "c", "e">>,
   EventDate |-> <<"2", "0", "2", "4", "-", "0", "3", "-", "0", "5", "T", "0", "0", ":", "0",
                   "0", ":", "0", "0">>,
   EventTime |-> <<"T", "B", "D">>,
   EventLocation |-> <<"C", "i", "t", "y", " ", "H", "a", "l", "l">>,
   SyntheticMeetingTopic |-> <<>>,
   EventComment |-> <<>>]

\* an hour outside the clock
BadHourEntry ==
  [EventId |-> 12,
   EventBodyName |-> <<"C", "o", "m", "m", "i", "t", "t", "e", "e", " ", "o", "n", " ", "F",
                       "i", "n", "a", "n", "c", "e">>,
   EventDate |-> <<"2", "0", "2", "4", "-", "0", "3", "-", "0", "5", "T", "0", "0", ":", "0",
                   "0", ":", "0", "0">>,
   EventTime |-> <<"1", "3", ":", "0", "0", " ", "P", "M">>,
   EventLocation |-> <<"C", "i", "t", "y", " ", "H", "a", "l", "l">>,
   SyntheticMeetingTopic |-> <<>>,
   EventComment |-> <<>>]

\* no date
NoDateEntry ==
  [EventId |-> 12,
   EventBodyName |-> <<"C", "o", "m", "m", "i", "t", "t", "e", "e", " ", "o", "n", " ", "F",
                       "i", "n", "a", "n", "c", "e">>,
   EventDate |-> <<>>,
   EventTime |-> <<"1", "0", ":", "0", "0", " ", "A", "M">>,
   EventLocation |-> <<"C", "i", "t", "y", " ", "H", "a", "l", "l">>,
   SyntheticMeetingTopic |-> <<>>,
   EventComment |-> <<>>]

\* a date that is no date
BadDateEntry ==
  [EventId |-> 12,
   EventBodyName |-> <<"C", "o", "m", "m", "i", "t", "t", "e", "e", " ", "o", "n", " ", "F",
                       "i", "n", "a", "n", "c", "e">>,
   EventDate |-> <<"2", "0", "2", "4", "-", "1", "3", "-", "4", "5">>,
   EventTime |-> <<"1", "0", ":", "0", "0", " ", "A", "M">>,
   EventLocation |-> <<"C", "i", "t", "y", " ", "H", "a", "l", "l">>,
   SyntheticMeetingTopic |-> <<>>,
   EventComment |-> <<>>]

\* a word where the date should be
WordDateEntry ==
  [EventId |-> 12,
   EventBodyName |-> <<"C", "o", "m", "m", "i", "t", "t", "e", "e", " ", "o", "n", " ", "F",
                       "i", "n", "a", "n", "c", "e">>,
   EventDate |-> <<"T", "B", "D">>,
   EventTime |-> <<>>,
   EventLocation |-> <<"C", "i", "t", "y", " ", "H", "a", "l", "l">>,
   SyntheticMeetingTopic |-> <<>>,
   EventComment |-> <<>>]

\* text with the characters iCalendar escapes
PunctuatedEntry ==
  [EventId |-> 12,
   EventBodyName |-> <<"L", "a", "n", "d", " ", "U", "s", "e", ",", " ", "Z", "o", "n", "i",
                       "n", "g", ";", " ", "F", "r", "a", "n", "c", "h", "i", "s", "e", "s">>,
   EventDate |-> <<"2", "0", "2", "4", "-", "0", "3", "-", "0", "5", "T", "0", "0", ":", "0",
                   "0", ":", "0", "0">>,
   EventTime |-> <<"1", "0", ":", "0", "0", " ", "A", "M">>,
   EventLocation |-> <<"R", "o", "o", "m", " ", "A", "\\", "B", ",", " ", "2", "5", "0", " ",
                       "B", "r", "o", "a", "d", "w", "a", "y">>,
   SyntheticMeetingTopic |-> <<"O", "v", "e", "r", "s", "i", "g", "h", "t", ";", " ", "\"", "O",
                               "p", "e", "n", "\"", " ", "d", "a", "t", "a">>,
   EventComment |-> <<"L", "i", "n", "e", " ", "o", "n", "e", "LF", "L", "i", "n", "e", " ",
                      "t", "w", "o">>]

\* a name of 34 two-octet characters
AccentedEntry ==
  [EventId |-> 12,
   EventBodyName |-> <<"e-acute", "e-acute", "e-acute", "e-acute", "e-acute", "e-acute",
                       "e-acute", "e-acute", "e-acute", "e-acute", "e-acute", "e-acute",
                       "e-acute", "e-acute", "e-acute", "e-acute", "e-acute", "e-acute",
                       "e-acute", "e-acute", "e-acute", "e-acute", "e-acute", "e-acute",
                       "e-acute", "e-acute", "e-acute", "e-acute", "e-acute", "e-acute",
                       "e-acute", "e-acute", "e-acute", "e-acute">>,
   EventDate |-> <<"2", "0", "2", "4", "-", "0", "3", "-", "0", "5", "T", "0", "0", ":", "0",
                   "0", ":", "0", "0">>,
   EventTime |-> <<"1", "0", ":", "0", "0", " ", "A", "M">>,
   EventLocation |-> <<"C", "i", "t", "y", " ", "H", "a", "l", "l">>,
   SyntheticMeetingTopic |-> <<>>,
   EventComment |-> <<>>]

\* a location longer than two folded lines and a long accented topic
LongEntry ==
  [EventId |-> 12,
   EventBodyName |-> <<"C", "o", "m", "m", "i", "t", "t", "e", "e", " ", "o", "n", " ", "F",
                       "i", "n", "a", "n", "c", "e">>,
   EventDate |-> <<"2", "0", "2", "4", "-", "0", "3", "-", "0", "5", "T", "0", "0", ":", "0",
                   "0", ":", "0", "0">>,
   EventTime |-> <<"1", "0", ":", "0", "0", " ", "A", "M">>,
   EventLocation |-> <<"C", "o", "u", "n", "c", "i", "l", " ", "C", "h", "a", "m", "b", "e",
                       "r", "s", ",", " ", "C", "i", "t", "y", " ", "H", "a", "l", "l", ",",
                       " ", "C", "o", "m", "m", "i", "t", "t", "e", "e", " ", "R", "o", "o",
                       "m", " ", "o", "n", " ", "t", "h", "e", " ", "1", "6", "t", "h", " ",
                       "F", "l", "o", "o", "r", " ", "o", "f", " ", "2", "5", "0", " ", "B",
                       "r", "o", "a", "d", "w", "a", "y", ",", " ", "C", "o", "m", "m", "i",
                       "t", "t", "e", "e", " ", "R", "o", "o", "m", " ", "o", "n", " ", "t",
                       "h", "e", " ", "1", "6", "t", "h", " ", "F", "l", "o", "o", "r", " ",
                       "o", "f", " ", "2", "5", "0", " ", "B", "r", "o", "a", "d", "w", "a",
                       "y", ",", " ", "C", "o", "m", "m", "i", "t", "t", "e", "e", " ", "R",
                       "o", "o", "m", " ", "o", "n", " ", "t", "h", "e", " ", "1", "6", "t",
                       "h", " ", "F", "l", "o", "o", "r", " ", "o", "f", " ", "2", "5", "0",
                       " ", "B">>,
   SyntheticMeetingTopic |-> <<"C", "a", "f", "e-acute", " ", "euro", " ", "C", "a", "f",
                               "e-acute", " ", "euro", " ", "C", "a", "f", "e-acute", " ",
                               "euro", " ", "C", "a", "f", "e-acute", " ", "euro", " ", "C",
                               "a", "f", "e-acute", " ", "euro", " ", "C", "a", "f", "e-acute",
                               " ", "euro", " ", "C", "a", "f", "e-acute", " ", "euro", " ",
                               "C", "a", "f", "e-acute", " ", "euro", " ", "C", "a", "f",
                               "e-acute", " ", "euro", " ", "C", "a", "f", "e-acute", " ",
                               "euro", " ", "C", "a", "f", "e-acute", " ", "euro", " ", "C",
                               "a", "f", "e-acute", " ", "euro", " ">>,
   EventComment |-> <<>>]

\* a hearing whose EventId is 0
NoIdEntry ==
  [EventId |-> 0,
   EventBodyName |-> <<"C", "o", "m", "m", "i", "t", "t", "e", "e", " ", "o", "n", " ", "F",
                       "i", "n", "a", "n", "c", "e">>,
   EventDate |-> <<"2", "0", "2", "4", "-", "0", "3", "-", "0", "5", "T", "0", "0", ":", "0",
                   "0", ":", "0", "0">>,
   EventTime |-> <<"1", "0", ":", "0", "0", " ", "A", "M">>,
   EventLocation |-> <<"C", "i", "t", "y", " ", "H", "a", "l", "l">>,
   SyntheticMeetingTopic |-> <<>>,
   EventComment |-> <<>>]

\* another hearing, with its own id
OtherEntry ==
  [EventId |-> 7,
   EventBodyName |-> <<"C", "o", "m", "m", "i", "t", "t", "e", "e", " ", "o", "n", " ", "A",
                       "g", "i", "n", "g">>,
   EventDate |-> <<"2", "0", "2", "4", "-", "0", "3", "-", "0", "5", "T", "0", "0", ":", "0",
                   "0", ":", "0", "0">>,
   EventTime |-> <<"1", "0", ":", "0", "0", " ", "A", "M">>,
   EventLocation |-> <<"C", "i", "t", "y", " ", "H", "a", "l", "l">>,
   SyntheticMeetingTopic |-> <<>>,
   EventComment |-> <<>>]

SampleEntries ==
  { MorningEntry,
    AfternoonEntry,
    NoonEntry,
    MidnightEntry,
    LateEntry,
    NoTimeEntry,
    ClockEntry,
    BadTimeEntry,
    BadHourEntry,
    NoDateEntry,
    BadDateEntry,
    WordDateEntry,
    PunctuatedEntry,
    AccentedEntry,
    LongEntry,
    NoIdEntry }

(* ------------------------- embedded event data ------------------------- *)

\* what js_escape writes for one character: backslash, quote, line feed and
\* carriage return are escaped
EscapeUnit(c) ==
  CASE c = "\\" -> <<"\\", "\\">>
    [] c = "\"" -> <<"\\", "\"">>
    [] c = "LF" -> <<"\\", "n">>
    [] c = "CR" -> <<"\\", "r">>
    [] OTHER -> <<c>>

\* js_escape(s)
js_escape(str) ==
  Flatten([i \in 1..Len(str) |-> EscapeUnit(str[i])], 1, Len(str))

\* number of backslashes that end right before position i
RECURSIVE BackslashRun(_, _)
BackslashRun(src, i) ==
  IF i > 1 /\ src[i - 1] = "\\" THEN 1 + BackslashRun(src, i - 1) ELSE 0

\* whether position i of a string literal holds the backslash that opens an
\* escape sequence
OpensEscape(src, i) ==
  i >= 1 /\ src[i] = "\\" /\ BackslashRun(src, i) % 2 = 0

\* the value of the double-quoted string literal the browser reads back
JsStringLiteral(src) ==
  Flatten([i \in 1..Len(src) |->
             IF OpensEscape(src, i) THEN <<>>
             ELSE IF OpensEscape(src, i - 1)
               THEN <<CASE src[i] = "n" -> "LF" [] src[i] = "r" -> "CR"
                        [] OTHER -> src[i]>>
             ELSE <<src[i]>>],
          1, Len(src))

\* one `eventData[id] = {...}` statement as the browser evaluates it
EmbeddedEntry(e) ==
  [EventId |-> e.EventId,
   EventBodyName |-> JsStringLiteral(js_escape(e.EventBodyName)),
   EventDate |-> JsStringLiteral(js_escape(e.EventDate)),
   EventTime |-> JsStringLiteral(js_escape(e.EventTime)),
   EventLocation |-> JsStringLiteral(js_escape(e.EventLocation)),
   SyntheticMeetingTopic |-> JsStringLiteral(js_escape(e.SyntheticMeetingTopic)),
   EventComment |-> JsStringLiteral(js_escape(e.EventComment))]

\* populateEventData(): one statement per hearing with a truthy EventId, in
\* feed order, a later statement for the same id replacing the earlier one
populateEventData(f) ==
  LET ids == {f[i].EventId : i \in 1..Len(f)} \ {0}
      last(id) == CHOOSE i \in 1..Len(f) :
                    /\ f[i].EventId = id
                    /\ \A j \in (i + 1)..Len(f) : f[j].EventId # id
  IN  [id \in ids |-> EmbeddedEntry(f[last(id)])]

(* -------------------------------- state -------------------------------- *)

VARIABLES
  totalItems,      \* number of cards carrying data-hearing-index
  defaultFilter,   \* updates_filter_value baked into the script
  hist,            \* session history: the URLs of the document's entries
  idx,             \* the active history entry; window.location is hist[idx]
  filterSelect,    \* filterSelect.value
  activeSections,  \* ids of the .updates-section elements with class active
  currentPage,
  totalPages,
  display,         \* style.display of every hearing card
  pag,             \* pagination controls
  lastEvent,       \* the handler that ran last
  wroteURL,        \* whether that handler called history.replaceState
  feed,            \* event_data of the first upcoming hearings, in feed order
  eventData,       \* the script's eventData table, keyed by EventId
  alertMsg,        \* text of the last alert() shown
  download,        \* the last file handed to the browser for saving
  threw,           \* whether the last handler ended with an uncaught exception
  tzOffset,        \* minutes the browser's local time is ahead of UTC
  call             \* the last call of a stand-alone function: name, input, result

uiVars == <<totalItems, defaultFilter, hist, idx, filterSelect, activeSections,
            currentPage, totalPages, display, pag, lastEvent, wroteURL>>

vars == <<totalItems, defaultFilter, hist, idx, filterSelect, activeSections,
          currentPage, totalPages, display, pag, lastEvent, wroteURL,
          feed, eventData, alertMsg, download, threw, tzOffset, call>>

NoDownload == [saved |-> FALSE, name |-> <<>>, content |-> <<>>]
NoCall == [op |-> "none", arg |-> <<>>, res |-> <<>>]

\* a handler that does not touch the export state and returns normally
HandlerReturns ==
  /\ threw' = FALSE
  /\ UNCHANGED <<feed, eventData, alertMsg, download, tzOffset, call>>

location == hist[idx]

\* URLs of the history entries other than the one the page is loaded at
HistoryURLs ==
  { [hasFilter |-> TRUE, filter |-> <<>>, hasPage |-> TRUE, page |-> <<"0">>],
    [hasFilter |-> FALSE, filter |-> <<>>, hasPage |-> TRUE, page |-> <<"9", "9">>],
    [hasFilter |-> TRUE, filter |-> last_7_days, hasPage |-> TRUE, page |-> <<"4">>],
    [hasFilter |-> TRUE, filter |-> <<"bogus">>, hasPage |-> TRUE, page |-> <<"-", "3">>],
    [hasFilter |-> TRUE, filter |-> <<"last", "-", "7", "-", "days">>,
     hasPage |-> TRUE, page |-> <<"3", "x">>] }

Init ==
  /\ totalItems \in ItemCounts
  /\ defaultFilter \in DefaultFilters
  /\ \E k \in 1..MaxHist : \E i \in 1..k : \E u \in URLs :
       \E rest \in [(1..k) \ {i} -> HistoryURLs] :
         /\ hist = [j \in 1..k |-> IF j = i THEN u ELSE rest[j]]
         /\ idx = i
  /\ filterSelect = since_last_run
  /\ activeSections = {}
  /\ currentPage = 1
  /\ totalPages = 1
  /\ display = [index \in 0..(totalItems - 1) |-> ""]
  /\ pag = [shown |-> "", prev |-> "unset", next |-> "unset", links |-> <<>>]
  /\ lastEvent = "init"
  /\ wroteURL = FALSE
  /\ feed = <<>>
  /\ eventData = <<>>
  /\ alertMsg = <<>>
  /\ download = NoDownload
  /\ threw = FALSE
  /\ tzOffset = 0
  /\ call = NoCall

(* ------------------------------- handlers ------------------------------ *)

\* showPage(page): everything it assigns
showPage(page) ==
  /\ display' = showPage_display(totalItems, page)
  /\ currentPage' = page
  /\ pag' = updatePagination(totalItems, page, totalPages', pag)
  /\ hist' = updateURL(hist, idx, filterSelect', page)
  /\ wroteURL' = TRUE

\* variant: the popstate path also rewrites the URL
showPageWithoutURLUpdate_writes(page) ==
  /\ display' = showPageWithoutURLUpdate_display(totalItems, page)
  /\ currentPage' = page
  /\ pag' = updatePagination(totalItems, page, totalPages', pag)
  /\ hist' = updateURL(hist, idx', filterSelect', page)
  /\ wroteURL' = TRUE

\* showPageWithoutURLUpdate(page): everything it assigns; no updateURL call
showPageWithoutURLUpdate(page) ==
  /\ display' = showPageWithoutURLUpdate_display(totalItems, page)
  /\ currentPage' = page
  /\ pag' = updatePagination(totalItems, page, totalPages', pag)
  /\ hist' = hist
  /\ wroteURL' = FALSE

\* variant: load shows the page without writing the URL
Load_keepsURL ==
  /\ lastEvent = "init"
  /\ eventData' = populateEventData(feed)
  /\ threw' = FALSE
  /\ UNCHANGED <<feed, alertMsg, download, tzOffset, call>>
  /\ LET filterFromURL == FilterFromURL(location, defaultFilter)
         total == CeilDiv(totalItems, itemsPerPage)
         urlPage == PageFromURL(location)
     IN  /\ filterSelect' = SelectAssign(filterFromURL)
         /\ activeSections' = showUpdatesSection(filterFromURL)
         /\ totalPages' = total
         /\ showPageWithoutURLUpdate(ClampPage(urlPage, total))
  /\ lastEvent' = "load"
  /\ UNCHANGED <<totalItems, defaultFilter, idx>>

\* DOMContentLoaded: initializeUpdatesFilter(); initializePagination()
Load ==
  /\ lastEvent = "init"
  /\ eventData' = populateEventData(feed)
  /\ threw' = FALSE
  /\ UNCHANGED <<feed, alertMsg, download, tzOffset, call>>
  /\ LET filterFromURL == FilterFromURL(location, defaultFilter)
         total == CeilDiv(totalItems, itemsPerPage)
         urlPage == PageFromURL(location)
     IN  /\ filterSelect' = SelectAssign(filterFromURL)
         /\ activeSections' = showUpdatesSection(filterFromURL)
         /\ totalPages' = total
         /\ showPage(ClampPage(urlPage, total))
  /\ lastEvent' = "load"
  /\ UNCHANGED <<totalItems, defaultFilter, idx>>

Loaded == lastEvent # "init"

\* variant: a filter change also goes back to page 1
FilterChange_resetsPage(v) ==
  /\ lastEvent # "init"
  /\ HandlerReturns
  /\ v \in FilterOptions /\ v # filterSelect
  /\ filterSelect' = v
  /\ activeSections' = showUpdatesSection(v)
  /\ UNCHANGED <<totalItems, defaultFilter, idx, totalPages>>
  /\ showPage(1)
  /\ lastEvent' = "filter"

\* change event of the selector: updateFilter(this.value)
FilterChange(v) ==
  /\ Loaded
  /\ HandlerReturns
  /\ v \in FilterOptions /\ v # filterSelect
  /\ filterSelect' = v
  /\ activeSections' = showUpdatesSection(v)
  /\ hist' = updateURL(hist, idx, v, currentPage)
  /\ wroteURL' = TRUE
  /\ lastEvent' = "filter"
  /\ UNCHANGED <<totalItems, defaultFilter, idx, currentPage, totalPages, display, pag>>

PaginationVisible == HasPaginationContainer(totalItems) /\ pag.shown = "block"

\* click on a numbered page link: onclick="showPage(i); return false;"
PageClick(k) ==
  /\ Loaded /\ PaginationVisible
  /\ HandlerReturns
  /\ UNCHANGED <<totalItems, defaultFilter, idx, filterSelect, activeSections, totalPages>>
  /\ k \in 1..Len(pag.links)
  /\ showPage(pag.links[k])
  /\ lastEvent' = "page"

\* click on Next with the handler installed by updatePagination
NextClick ==
  /\ Loaded /\ PaginationVisible
  /\ HandlerReturns
  /\ UNCHANGED <<totalItems, defaultFilter, idx, filterSelect, activeSections, totalPages>>
  /\ IF pag.next = "go"
       THEN /\ showPage(currentPage + 1)
            /\ lastEvent' = "next"
       ELSE /\ lastEvent' = "noop"
            /\ wroteURL' = FALSE
            /\ UNCHANGED <<display, currentPage, pag, hist>>

\* click on Previous with the handler installed by updatePagination
PrevClick ==
  /\ Loaded /\ PaginationVisible
  /\ HandlerReturns
  /\ UNCHANGED <<totalItems, defaultFilter, idx, filterSelect, activeSections, totalPages>>
  /\ IF pag.prev = "go"
       THEN /\ showPage(currentPage - 1)
            /\ lastEvent' = "prev"
       ELSE /\ lastEvent' = "noop"
            /\ wroteURL' = FALSE
            /\ UNCHANGED <<display, currentPage, pag, hist>>

\* the browser activates history entry j and fires popstate
PopState(j) ==
  /\ Loaded
  /\ HandlerReturns
  /\ j \in 1..Len(hist) /\ j # idx
  /\ idx' = j
  /\ UNCHANGED <<totalItems, defaultFilter, totalPages>>
  /\ LET filterFromURL == FilterFromURL(hist[j], defaultFilter)
         pageFromURL == PageFromURL(hist[j])
     IN  /\ filterSelect' = SelectAssign(filterFromURL)
         /\ activeSections' = showUpdatesSection(filterFromURL)
         /\ showPageWithoutURLUpdate(ClampPage(pageFromURL, totalPages))
  /\ lastEvent' = "popstate"

\* a direct call of the global window.showPage(page)
ShowPageGlobal(page) ==
  /\ Loaded
  /\ HandlerReturns
  /\ UNCHANGED <<totalItems, defaultFilter, idx, filterSelect, activeSections, totalPages>>
  /\ page \in PageArgs
  /\ showPage(page)
  /\ lastEvent' = "global"

Next ==
  \/ Load
  \/ \E v \in FilterOptions : FilterChange(v)
  \/ \E k \in DOMAIN pag.links : PageClick(k)
  \/ NextClick
  \/ PrevClick
  \/ \E j \in 1..MaxHist : PopState(j)

Spec == Init /\ [][Next]_vars

NextGlobal ==
  \/ Next
  \/ \E page \in PageArgs : ShowPageGlobal(page)

SpecGlobal == Init /\ [][NextGlobal]_vars

(* --------------------------- Add to Calendar --------------------------- *)

\* the two readings of `new Date()` during a click, in generateICalendar and
\* then in parseEventDateTime, in seconds since the epoch: once both within
\* the same second, once with the second ticking in between
ClockReadings ==
  { << DaysFromCivil(2024, 3, 1) * 86400 + 15 * 3600,
       DaysFromCivil(2024, 3, 1) * 86400 + 15 * 3600 >>,
    << DaysFromCivil(2024, 6, 15) * 86400 + 23 * 3600 + 59 * 60 + 59,
       DaysFromCivil(2024, 6, 15) * 86400 + 23 * 3600 + 59 * 60 + 60 >> }

\* offsets of the browser's local time from UTC, in minutes
TzOffsets == {0 - 300, 330}

\* an id that no hearing of the feed carries
UnknownId == 99

\* the ids a click can pass: those of the feed's cards, and one of no card
ClickIds(f) == {f[i].EventId : i \in 1..Len(f)} \cup {UnknownId}

\* variant: an id without entry still saves a file, an empty one
addToCalendar_savesAnyway(eventId, now, now2) ==
  /\ Loaded
  /\ eventId \in ClickIds(feed)
  /\ <<now, now2>> \in ClockReadings
  /\ lastEvent' = "calendar"
  /\ wroteURL' = FALSE
  /\ UNCHANGED <<totalItems, defaultFilter, hist, idx, filterSelect,
                 activeSections, currentPage, totalPages, display, pag>>
  /\ UNCHANGED <<feed, eventData, tzOffset>>
  /\ call' = [op |-> "addToCalendar", arg |-> <<eventId, now, now2>>, res |-> <<>>]
  /\ IF eventId \notin DOMAIN eventData
       THEN /\ alertMsg' = <<"E", "v", "e", "n", "t", " ", "d", "a", "t", "a", " ", "n", "o",
                             "t", " ", "f", "o", "u", "n", "d">>
            /\ threw' = FALSE
            /\ download' = [saved |-> TRUE,
                             name |-> <<"h", "e", "a", "r", "i", "n", "g",
                                        "-">> \o NumberToString(eventId) \o <<".", "i", "c",
                                        "s">>,
                             content |-> <<>>]
       ELSE LET icalString == generateICalendar(eventData[eventId], now, now2, tzOffset)
            IN  IF icalString.threw
                  THEN /\ threw' = TRUE
                       /\ UNCHANGED <<alertMsg, download>>
                  ELSE /\ threw' = FALSE
                       /\ download' =
                            [saved |-> TRUE,
                             name |-> <<"h", "e", "a", "r", "i", "n", "g",
                                        "-">> \o NumberToString(eventId) \o <<".", "i", "c",
                                        "s">>,
                             content |-> encodeURIComponent(icalString.text)]
                       /\ UNCHANGED alertMsg

\* variant: every file is called hearing.ics
addToCalendar_oneName(eventId, now, now2) ==
  /\ Loaded
  /\ eventId \in ClickIds(feed)
  /\ <<now, now2>> \in ClockReadings
  /\ lastEvent' = "calendar"
  /\ wroteURL' = FALSE
  /\ UNCHANGED <<totalItems, defaultFilter, hist, idx, filterSelect,
                 activeSections, currentPage, totalPages, display, pag>>
  /\ UNCHANGED <<feed, eventData, tzOffset>>
  /\ call' = [op |-> "addToCalendar", arg |-> <<eventId, now, now2>>, res |-> <<>>]
  /\ IF eventId \notin DOMAIN eventData
       THEN /\ alertMsg' = <<"E", "v", "e", "n", "t", " ", "d", "a", "t", "a", " ", "n", "o",
                             "t", " ", "f", "o", "u", "n", "d">>
            /\ threw' = FALSE
            /\ UNCHANGED download
       ELSE LET icalString == generateICalendar(eventData[eventId], now, now2, tzOffset)
            IN  IF icalString.threw
                  THEN /\ threw' = TRUE
                       /\ UNCHANGED <<alertMsg, download>>
                  ELSE /\ threw' = FALSE
                       /\ download' =
                            [saved |-> TRUE,
                             name |-> <<"h", "e", "a", "r", "i", "n", "g", ".", "i", "c", "s">>,
                             content |-> encodeURIComponent(icalString.text)]
                       /\ UNCHANGED alertMsg

\* onclick="addToCalendar(eventId)"; now and now2 are the two readings of the
\* clock
addToCalendar(eventId, now, now2) ==
  /\ Loaded
  /\ eventId \in ClickIds(feed)
  /\ <<now, now2>> \in ClockReadings
  /\ lastEvent' = "calendar"
  /\ wroteURL' = FALSE
  /\ UNCHANGED <<totalItems, defaultFilter, hist, idx, filterSelect,
                 activeSections, currentPage, totalPages, display, pag>>
  /\ UNCHANGED <<feed, eventData, tzOffset>>
  /\ call' = [op |-> "addToCalendar", arg |-> <<eventId, now, now2>>, res |-> <<>>]
  /\ IF eventId \notin DOMAIN eventData
       THEN /\ alertMsg' = <<"E", "v", "e", "n", "t", " ", "d", "a", "t", "a", " ", "n", "o",
                             "t", " ", "f", "o", "u", "n", "d">>
            /\ threw' = FALSE
            /\ UNCHANGED download
       ELSE LET icalString == generateICalendar(eventData[eventId], now, now2, tzOffset)
            IN  IF icalString.threw
                  THEN /\ threw' = TRUE
                       /\ UNCHANGED <<alertMsg, download>>
                  ELSE /\ threw' = FALSE
                       /\ download' =
                            [saved |-> TRUE,
                             name |-> <<"h", "e", "a", "r", "i", "n", "g",
                                        "-">> \o NumberToString(eventId) \o <<".", "i", "c",
                                        "s">>,
                             content |-> encodeURIComponent(icalString.text)]
                       /\ UNCHANGED alertMsg

\* the feeds the export is followed on
SampleFeeds ==
  {<<e>> : e \in SampleEntries} \cup {<<MorningEntry, OtherEntry>>}

\* a page of itemsPerPage + 1 hearings, opened without query string; the
\* export is followed for the first hearings of the feed
InitExport ==
  /\ feed \in SampleFeeds
  /\ tzOffset \in TzOffsets
  /\ totalItems = itemsPerPage + 1
  /\ defaultFilter = since_last_run
  /\ hist = << [hasFilter |-> FALSE, filter |-> <<>>, hasPage |-> FALSE, page |-> <<>>] >>
  /\ idx = 1
  /\ filterSelect = since_last_run
  /\ activeSections = {}
  /\ currentPage = 1
  /\ totalPages = 1
  /\ display = [index \in 0..(totalItems - 1) |-> ""]
  /\ pag = [shown |-> "", prev |-> "unset", next |-> "unset", links |-> <<>>]
  /\ lastEvent = "init"
  /\ wroteURL = FALSE
  /\ eventData = <<>>
  /\ alertMsg = <<>>
  /\ download = NoDownload
  /\ threw = FALSE
  /\ call = NoCall

NextExport ==
  \/ Load
  \/ NextClick
  \/ PrevClick
  \/ \E eventId \in ClickIds(feed) : \E r \in ClockReadings :
       addToCalendar(eventId, r[1], r[2])

SpecExport == InitExport /\ [][NextExport]_vars

(* --------------------------- functions alone -------------------------- *)

\* no page is open: the variables of the page and of the export at rest
NoPage ==
  /\ totalItems = 0
  /\ defaultFilter = since_last_run
  /\ hist = << [hasFilter |-> FALSE, filter |-> <<>>, hasPage |-> FALSE, page |-> <<>>] >>
  /\ idx = 1
  /\ filterSelect = since_last_run
  /\ activeSections = {}
  /\ currentPage = 1
  /\ totalPages = 1
  /\ display = <<>>
  /\ pag = [shown |-> "", prev |-> "unset", next |-> "unset", links |-> <<>>]
  /\ lastEvent = "init"
  /\ wroteURL = FALSE
  /\ feed = <<>>
  /\ eventData = <<>>
  /\ alertMsg = <<>>
  /\ download = NoDownload
  /\ threw = FALSE
  /\ tzOffset = 0

NoPageChange ==
  UNCHANGED <<totalItems, defaultFilter, hist, idx, filterSelect, activeSections,
              currentPage, totalPages, display, pag, lastEvent, wroteURL,
              feed, eventData, alertMsg, download, threw, tzOffset>>

\* longest line handed to wrapICalLine
MaxLineLen == 230

\* what the lines are made of: plain letters, or a mix with a space, a bare
\* line feed and a character outside ASCII
LinePatterns ==
  { <<"a", "b", "c", "d", "e", "f", "g">>,
    <<" ", "x", "LF", "e-acute", "y">> }

\* the line of n code units that repeats a pattern
LineOf(n, pattern) == [i \in 1..n |-> pattern[((i - 1) % Len(pattern)) + 1]]

\* content lines: no CRLF inside
ContentLines == {LineOf(n, p) : n \in 0..MaxLineLen, p \in LinePatterns}

InitFold ==
  /\ NoPage
  /\ \E line \in ContentLines : call = [op |-> "none", arg |-> line, res |-> <<>>]

\* one call wrapICalLine(line)
FoldLine ==
  /\ call.op = "none"
  /\ call' = [op |-> "wrapICalLine", arg |-> call.arg, res |-> wrapICalLine(call.arg)]
  /\ NoPageChange

NextFold == FoldLine

SpecFold == InitFold /\ [][NextFold]_vars

(* --------------------------- display helpers --------------------------- *)

\* number of digits s begins with
RECURSIVE DigitRun(_)
DigitRun(s) ==
  IF s # <<>> /\ Head(s) \in DecDigits THEN 1 + DigitRun(Tail(s)) ELSE 0

\* number of blanks s begins with
RECURSIVE BlankRun(_)
BlankRun(s) ==
  IF s # <<>> /\ Head(s) = " " THEN 1 + BlankRun(Tail(s)) ELSE 0

\* the texts strptime's directives match: %I is 1[0-2]|0[1-9]|[1-9], %H is
\* 2[0-3]|[0-1]\d|\d, %M is [0-5]\d|\d and %S is 6[0-1]|[0-5]\d|\d
MatchesI(r) == Len(r) \in 1..2 /\ AllDigits(r) /\ DigitsValue(r) \in 1..12
MatchesH(r) == Len(r) \in 1..2 /\ AllDigits(r) /\ DigitsValue(r) \in 0..23
MatchesM(r) == Len(r) \in 1..2 /\ AllDigits(r) /\ DigitsValue(r) \in 0..59
MatchesS(r) == Len(r) \in 1..2 /\ AllDigits(r) /\ DigitsValue(r) \in 0..61

\* a failed strptime: ValueError
NoTime == [ok |-> FALSE, hour |-> 0, minute |-> 0]

\* datetime.strptime(s, '%I:%M %p'): the whole text must match, the blank of
\* the format stands for one or more blanks, AM and PM in either case
StrptimeIMp(s) ==
  LET n1 == DigitRun(s)
      s2 == SubSeq(s, n1 + 2, Len(s))
      n2 == DigitRun(s2)
      s3 == SubSeq(s2, n2 + 1, Len(s2))
      n3 == BlankRun(s3)
      p == SubSeq(s3, n3 + 1, Len(s3))
      hh == DigitsValue(SubSeq(s, 1, n1))
  IN  IF /\ Len(s) > n1 /\ s[n1 + 1] = ":"
         /\ MatchesI(SubSeq(s, 1, n1))
         /\ MatchesM(SubSeq(s2, 1, n2))
         /\ n3 >= 1
         /\ Len(p) = 2 /\ p[1] \in {"A", "a", "P", "p"} /\ p[2] \in {"M", "m"}
        THEN [ok |-> TRUE,
              hour |-> (hh % 12) + (IF p[1] \in {"P", "p"} THEN 12 ELSE 0),
              minute |-> DigitsValue(SubSeq(s2, 1, n2))]
        ELSE NoTime

\* datetime.strptime(s, '%H:%M:%S'); a second of 60 or 61 matches the
\* directive and is then refused by datetime, a ValueError as well
StrptimeHMS(s) ==
  LET n1 == DigitRun(s)
      s2 == SubSeq(s, n1 + 2, Len(s))
      n2 == DigitRun(s2)
      s3 == SubSeq(s2, n2 + 2, Len(s2))
  IN  IF /\ Len(s) > n1 /\ s[n1 + 1] = ":"
         /\ Len(s2) > n2 /\ s2[n2 + 1] = ":"
         /\ MatchesH(SubSeq(s, 1, n1))
         /\ MatchesM(SubSeq(s2, 1, n2))
         /\ MatchesS(s3) /\ DigitsValue(s3) <= 59
        THEN [ok |-> TRUE,
              hour |-> DigitsValue(SubSeq(s, 1, n1)),
              minute |-> DigitsValue(SubSeq(s2, 1, n2))]
        ELSE NoTime

\* datetime.strptime(s, '%H:%M')
StrptimeHM(s) ==
  LET n1 == DigitRun(s)
      s2 == SubSeq(s, n1 + 2, Len(s))
  IN  IF /\ Len(s) > n1 /\ s[n1 + 1] = ":"
         /\ MatchesH(SubSeq(s, 1, n1))
         /\ MatchesM(s2)
        THEN [ok |-> TRUE,
              hour |-> DigitsValue(SubSeq(s, 1, n1)),
              minute |-> DigitsValue(s2)]
        ELSE NoTime

\* dt_obj.strftime('%I:%M %p')
StrftimeIMp(hour, minute) ==
  PadStart2(IF hour % 12 = 0 THEN 12 ELSE hour % 12) \o <<":">> \o PadStart2(minute)
    \o (IF hour < 12 THEN <<" ", "A", "M">> ELSE <<" ", "P", "M">>)

\* variant: the attempt with seconds is left out
get_event_time_display_noSeconds(time_str) ==
  IF time_str = <<>> THEN <<"T", "i", "m", "e", " ", "T", "B", "D">>
  ELSE IF StrptimeIMp(time_str).ok
    THEN StrftimeIMp(StrptimeIMp(time_str).hour, StrptimeIMp(time_str).minute)
  ELSE IF StrptimeHM(time_str).ok
    THEN StrftimeIMp(StrptimeHM(time_str).hour, StrptimeHM(time_str).minute)
  ELSE time_str

\* get_event_time_display(time_str); None and '' are the empty text
get_event_time_display(time_str) ==
  IF time_str = <<>> THEN <<"T", "i", "m", "e", " ", "T", "B", "D">>
  ELSE IF StrptimeIMp(time_str).ok
    THEN StrftimeIMp(StrptimeIMp(time_str).hour, StrptimeIMp(time_str).minute)
  ELSE IF StrptimeHMS(time_str).ok
    THEN StrftimeIMp(StrptimeHMS(time_str).hour, StrptimeHMS(time_str).minute)
  ELSE IF StrptimeHM(time_str).ok
    THEN StrftimeIMp(StrptimeHM(time_str).hour, StrptimeHM(time_str).minute)
  ELSE time_str

\* hours, minutes and endings the time texts are put together from
TimeHours ==
  { <<"0">>, <<"1">>, <<"2">>, <<"9">>, <<"0", "9">>, <<"0", "0">>, <<"1", "0">>, <<"1", "2">>,
      <<"1", "3">>, <<"1", "4">>,
    <<"2", "3">>, <<"2", "4">>, <<"1", "2", "3">>, <<>> }
TimeMinutes == { <<"0", "0">>, <<"3", "0">>, <<"5">>, <<"5", "9">>, <<"6", "0">>, <<"0", "7",
                   "5">>, <<>> }
TimeEndings ==
  { <<>>, <<" ", "A", "M">>, <<" ", "P", "M">>, <<" ", "p", "m">>, <<" ", " ", "A", "m">>,
            <<" ", "X", "M">>, <<" ", "P", "M", " ">>, <<":", "0", "0">>, <<":", "7">>,
    <<":", "5", "9">>, <<":", "6", "0">>, <<":", "0", "0", " ", "P", "M">>, <<":">> }

\* values of EventTime
TimeInputs ==
  {h \o <<":">> \o m \o e : h \in TimeHours, m \in TimeMinutes, e \in TimeEndings}
  \cup { <<>>, <<"T", "B", "D">>, <<"N", "o", "o", "n">>, <<"1", "0", " ", "A", "M">>, <<"1",
                 "0", "3", "0">>, <<" ", "2", ":", "3", "0", " ", "P", "M">>, <<"2", ".", "3",
                 "0", " ", "P", "M">>,
         <<"P", "M">> }

InitTime ==
  /\ NoPage
  /\ \E time_str \in TimeInputs : call = [op |-> "none", arg |-> time_str, res |-> <<>>]

\* one call get_event_time_display(time_str)
DisplayTime ==
  /\ call.op = "none"
  /\ call' = [op |-> "get_event_time_display", arg |-> call.arg,
              res |-> get_event_time_display(call.arg)]
  /\ NoPageChange

NextTime == DisplayTime

SpecTime == InitTime /\ [][NextTime]_vars

\* a failed parse: ValueError
NoDateTime == [ok |-> FALSE, y |-> 0, m |-> 0, d |-> 0, hour |-> 0, minute |-> 0]

\* two digits at positions i and i + 1
TwoDigits(s, i) == Len(s) >= i + 1 /\ s[i] \in DecDigits /\ s[i + 1] \in DecDigits

\* the date a datetime can hold: years from 1, days that the month has
IsCivilDate(y, m, d) == y >= 1 /\ m \in 1..12 /\ d \in 1..DaysInMonth(y, m)

\* date_str.replace('Z', '+00:00')
ReplaceZ(s) ==
  Flatten([i \in 1..Len(s) |-> IF s[i] = "Z" THEN <<"+", "0", "0", ":", "0",
                                                    "0">> ELSE <<s[i]>>], 1, Len(s))

\* whether a text ends with an offset +HH:MM or -HH:MM
EndsWithOffset(s) ==
  LET n == Len(s)
  IN  /\ n >= 6
      /\ s[n - 5] \in {"+", "-"}
      /\ TwoDigits(s, n - 4) /\ s[n - 2] = ":" /\ TwoDigits(s, n - 1)
      /\ DigitsValue(SubSeq(s, n - 4, n - 3)) <= 23
      /\ DigitsValue(SubSeq(s, n - 1, n)) <= 59

\* the time of day HH:MM, HH:MM:SS, HH:MM:SS.fff or HH:MM:SS.ffffff
IsClockTime(c) ==
  /\ Len(c) \in {5, 8, 12, 15}
  /\ TwoDigits(c, 1) /\ c[3] = ":" /\ TwoDigits(c, 4)
  /\ DigitsValue(SubSeq(c, 1, 2)) <= 23
  /\ DigitsValue(SubSeq(c, 4, 5)) <= 59
  /\ Len(c) >= 8 =>
       (c[6] = ":" /\ TwoDigits(c, 7) /\ DigitsValue(SubSeq(c, 7, 8)) <= 59)
  /\ Len(c) >= 12 => (c[9] = "." /\ AllDigits(SubSeq(c, 10, Len(c))))

\* datetime.fromisoformat(s) for YYYY-MM-DD, one separating character, a time
\* of day and an optional offset; any other text is a ValueError. (The forms
\* that only some versions of Python read, such as a time without minutes,
\* are not among the inputs.)
fromisoformat(s) ==
  LET rest == SubSeq(s, 12, Len(s))
      clock == IF EndsWithOffset(rest) THEN SubSeq(rest, 1, Len(rest) - 6) ELSE rest
      y == DigitsValue(SubSeq(s, 1, 4))
      m == DigitsValue(SubSeq(s, 6, 7))
      d == DigitsValue(SubSeq(s, 9, 10))
  IN  IF /\ Len(s) >= 16
         /\ AllDigits(SubSeq(s, 1, 4)) /\ s[5] = "-"
         /\ TwoDigits(s, 6) /\ s[8] = "-" /\ TwoDigits(s, 9)
         /\ IsCivilDate(y, m, d)
         /\ IsClockTime(clock)
        THEN [ok |-> TRUE, y |-> y, m |-> m, d |-> d,
              hour |-> DigitsValue(SubSeq(clock, 1, 2)),
              minute |-> DigitsValue(SubSeq(clock, 4, 5))]
        ELSE NoDateTime

\* datetime.strptime(s, '%Y-%m-%d'): %Y is four digits, %m is
\* 1[0-2]|0[1-9]|[1-9] and %d is 3[0-1]|[1-2]\d|0[1-9]|[1-9]| [1-9]
StrptimeYmd(s) ==
  LET n1 == DigitRun(s)
      s2 == SubSeq(s, n1 + 2, Len(s))
      n2 == DigitRun(s2)
      s3 == SubSeq(s2, n2 + 2, Len(s2))
      dd == IF s3 # <<>> /\ Head(s3) = " " THEN Tail(s3) ELSE s3
      y == DigitsValue(SubSeq(s, 1, n1))
      m == DigitsValue(SubSeq(s2, 1, n2))
      d == DigitsValue(dd)
  IN  IF /\ n1 = 4 /\ Len(s) > 4 /\ s[5] = "-"
         /\ n2 \in 1..2 /\ Len(s2) > n2 /\ s2[n2 + 1] = "-"
         /\ Len(s3) \in 1..2 /\ Len(dd) >= 1 /\ AllDigits(dd)
         /\ m \in 1..12 /\ d \in 1..31
         /\ IsCivilDate(y, m, d)
        THEN [ok |-> TRUE, y |-> y, m |-> m, d |-> d, hour |-> 0, minute |-> 0]
        ELSE NoDateTime

\* %A and %B
WeekdayNames ==
  << <<"M", "o", "n", "d", "a", "y">>, <<"T", "u", "e", "s", "d", "a", "y">>, <<"W", "e", "d",
       "n", "e", "s", "d", "a", "y">>, <<"T", "h", "u", "r", "s", "d", "a", "y">>, <<"F", "r",
       "i", "d", "a", "y">>,
     <<"S", "a", "t", "u", "r", "d", "a", "y">>, <<"S", "u", "n", "d", "a", "y">> >>
MonthNames ==
  << <<"J", "a", "n", "u", "a", "r", "y">>, <<"F", "e", "b", "r", "u", "a", "r", "y">>, <<"M",
       "a", "r", "c", "h">>, <<"A", "p", "r", "i", "l">>, <<"M", "a", "y">>, <<"J", "u", "n",
       "e">>,
     <<"J", "u", "l", "y">>, <<"A", "u", "g", "u", "s", "t">>, <<"S", "e", "p", "t", "e", "m",
       "b", "e", "r">>, <<"O", "c", "t", "o", "b", "e", "r">>, <<"N", "o", "v", "e", "m", "b",
       "e", "r">>,
     <<"D", "e", "c", "e", "m", "b", "e", "r">> >>

\* dt_obj.strftime("%A, %B %d, %Y"), for years of four digits
StrftimeLong(dt) ==
  WeekdayNames[((DaysFromCivil(dt.y, dt.m, dt.d) + 3) % 7) + 1] \o <<",", " ">>
    \o MonthNames[dt.m] \o <<" ">> \o PadStart2(dt.d) \o <<",", " ">> \o Pad4(dt.y)

\* variant: a text without T is tried as a timestamp as well
format_display_date_anySeparator(date_str, include_time) ==
  IF date_str = <<>> THEN <<"T", "B", "D">>
  ELSE LET dt_obj == IF fromisoformat(ReplaceZ(date_str)).ok
                       THEN fromisoformat(ReplaceZ(date_str))
                       ELSE StrptimeYmd(date_str)
       IN  IF ~dt_obj.ok THEN date_str
           ELSE IF include_time
             THEN StrftimeLong(dt_obj) \o <<" ", "a", "t", " ">> \o StrftimeIMp(dt_obj.hour,
                                            dt_obj.minute)
           ELSE StrftimeLong(dt_obj)

\* format_display_date(date_str, include_time); None and '' are the empty text
format_display_date(date_str, include_time) ==
  IF date_str = <<>> THEN <<"T", "B", "D">>
  ELSE LET dt_obj == IF \E i \in 1..Len(date_str) : date_str[i] = "T"
                       THEN fromisoformat(ReplaceZ(date_str))
                       ELSE StrptimeYmd(date_str)
       IN  IF ~dt_obj.ok THEN date_str
           ELSE IF include_time
             THEN StrftimeLong(dt_obj) \o <<" ", "a", "t", " ">> \o StrftimeIMp(dt_obj.hour,
                                            dt_obj.minute)
           ELSE StrftimeLong(dt_obj)

\* dates and endings the date texts are put together from
DateParts ==
  { <<"2", "0", "2", "4", "-", "0", "3", "-", "0", "5">>, <<"2", "0", "2", "4", "-", "3", "-",
      "5">>, <<"2", "0", "2", "4", "-", "0", "2", "-", "2", "9">>, <<"2", "0", "2", "3", "-",
      "0", "2", "-", "2", "9">>, <<"2", "0", "2", "4", "-", "1", "3", "-", "0", "1">>,
    <<"2", "0", "2", "4", "-", "0", "0", "-", "1", "0">>, <<"2", "0", "2", "4", "-", "1", "2",
      "-", "3", "1">>, <<"1", "9", "9", "9", "-", "0", "1", "-", "0", "1">>, <<"2", "0", "2",
      "6", "-", "1", "1", "-", "0", "2">>, <<"2", "4", "-", "0", "3", "-", "0", "5">>,
    <<"2", "0", "2", "4", "-", "0", "3", "-", "0", "5", "x">>, <<"2", "0", "2", "4", "/", "0",
      "3", "/", "0", "5">>, <<"2", "0", "2", "4", "-", "0", "3", "-", "3", "2">>, <<"0", "0",
      "0", "0", "-", "0", "1", "-", "0", "1">>, <<"2", "0", "2", "4", "-", "0", "3">> }
DateEndings ==
  { <<>>, <<"T", "1", "0", ":", "0", "0", ":", "0", "0">>, <<"T", "1", "4", ":", "3", "0">>,
            <<"T", "0", "0", ":", "0", "5", ":", "0", "9">>, <<"T", "1", "2", ":", "0", "0",
            ":", "0", "0", "Z">>,
    <<"T", "2", "3", ":", "5", "9", ":", "5", "9", "-", "0", "5", ":", "0", "0">>, <<"T", "1",
      "0", ":", "0", "0", ":", "0", "0", ".", "1", "2", "3", "4", "5", "6">>, <<"T", "2", "5",
      ":", "0", "0", ":", "0", "0">>, <<"T", "1", "0", ":", "6", "0">>,
    <<" ", "1", "0", ":", "0", "0", ":", "0", "0">>, <<"t", "1", "0", ":", "0", "0", ":", "0",
      "0">>, <<"T", "1", "0", ":", "0", "0", ":", "0", "0", "Z", "Z">>, <<"T", "e", "a">>,
      <<"T", "1", "0", ":", "0", "0", ":", "0", "0", " ", "A", "M">> }

\* values of EventDate and of the timestamps the page displays
DateInputs ==
  {d \o e : d \in DateParts, e \in DateEndings}
  \cup { <<>>, <<"T", "B", "D">>, <<"T", "u", "e", "s", "d", "a", "y">>, <<"t", "o", "d", "a",
                 "y">>, <<"M", "a", "r", "c", "h", " ", "5", ",", " ", "2", "0", "2", "4">> }

InitDate ==
  /\ NoPage
  /\ \E date_str \in DateInputs : \E include_time \in BOOLEAN :
       call = [op |-> "none", arg |-> <<date_str, include_time>>, res |-> <<>>]

\* one call format_display_date(date_str, include_time)
DisplayDate ==
  /\ call.op = "none"
  /\ call' = [op |-> "format_display_date", arg |-> call.arg,
              res |-> format_display_date(call.arg[1], call.arg[2])]
  /\ NoPageChange

NextDate == DisplayDate

SpecDate == InitDate /\ [][NextDate]_vars

(* ------------------------------ event cards ---------------------------- *)

\* dict.get(key, default); a key whose value is None is written as a key
\* that is missing
Get(d, key, default) == IF key \in DOMAIN d THEN d[key] ELSE default

\* one element of a card: what it is, the text it shows, and for the
\* original date of a deferred hearing the time shown after the <del>
Piece(kind, text, more) == [kind |-> kind, text |-> text, more |-> more]

\* strftime("%m/%d/%Y %I:%M %p")
StrftimeShort(dt) ==
  PadStart2(dt.m) \o <<"/">> \o PadStart2(dt.d) \o <<"/">> \o Pad4(dt.y) \o <<" ">>
    \o StrftimeIMp(dt.hour, dt.minute)

\* the card's title and the View Agenda link
generate_event_card_header(event_data) ==
  <<Piece("title", Get(event_data, "EventBodyName", <<"N", "/", "A">>), <<>>)>>
    \o (IF Get(event_data, "EventAgendaFile", <<>>) # <<>>
          THEN <<Piece("agenda", event_data.EventAgendaFile, <<>>)>>
          ELSE <<>>)

\* variant: the status is not looked at
generate_event_card_button_anyStatus(event_entry, is_update_card) ==
  LET event_data == Get(event_entry, "event_data", <<>>)
  IN  IF /\ ~is_update_card
         /\ Get(event_data, "EventDate", <<>>) # <<>>
        THEN <<Piece("button",
                     IF "EventId" \in DOMAIN event_data
                       THEN NumberToString(event_data.EventId)
                       ELSE <<"u", "n", "k", "n", "o", "w", "n">>,
                     <<>>)>>
        ELSE <<>>

\* the Add to Calendar button; its text is the argument written into
\* onclick="addToCalendar(..)"
generate_event_card_button(event_entry, is_update_card) ==
  LET event_data == Get(event_entry, "event_data", <<>>)
  IN  IF /\ ~is_update_card
         /\ Get(event_entry, "current_status", "None") = "active"
         /\ Get(event_data, "EventDate", <<>>) # <<>>
        THEN <<Piece("button",
                     IF "EventId" \in DOMAIN event_data
                       THEN NumberToString(event_data.EventId)
                       ELSE <<"u", "n", "k", "n", "o", "w", "n">>,
                     <<>>)>>
        ELSE <<>>

\* the subtitle and the First seen line
generate_event_card_subtitle(event_entry, is_update_card) ==
  LET event_data == Get(event_entry, "event_data", <<>>)
      meeting_topic == Get(event_data, "SyntheticMeetingTopic", <<>>)
      first_seen_ts == Get(event_entry, "first_seen_timestamp", <<>>)
      first_seen_dt == fromisoformat(ReplaceZ(first_seen_ts))
  IN  (IF meeting_topic # <<>> THEN <<Piece("subtitle", meeting_topic, <<>>)>> ELSE <<>>)
        \o (IF first_seen_ts # <<>> /\ ~is_update_card
              THEN <<Piece("first_seen",
                           IF first_seen_dt.ok THEN StrftimeShort(first_seen_dt)
                                               ELSE first_seen_ts,
                           <<>>)>>
              ELSE <<>>)

\* the badges NEW, RESCHEDULED (was ..) and DEFERRED, one piece each
generate_event_card_tags(event_entry, is_update_card) ==
  LET tags == Get(event_entry, "user_facing_tags", {})
      orig_details == Get(event_entry, "original_event_details_if_rescheduled", <<>>)
  IN  IF is_update_card THEN <<>>
      ELSE (IF "new_hearing_tag" \in tags
              THEN <<Piece("badge", <<"N", "E", "W">>, <<>>)>> ELSE <<>>)
        \o (IF "rescheduled_hearing_tag" \in tags /\ DOMAIN orig_details # {}
              THEN <<Piece("badge",
                           <<"R", "E", "S", "C", "H", "E", "D", "U", "L", "E", "D", " ", "(",
                             "w", "a", "s", " ">>
                             \o format_display_date(Get(orig_details, "original_date", <<>>), FALSE)
                             \o <<" ">>
                             \o get_event_time_display(Get(orig_details, "original_time", <<>>))
                             \o <<")">>,
                           <<>>)>>
              ELSE <<>>)
        \o (IF "deferred_hearing_tag" \in tags
              THEN <<Piece("badge", <<"D", "E", "F", "E", "R", "R", "E", "D">>, <<>>)>> ELSE <<>>)

\* the struck-through original date of a deferred hearing, or the row of
\* Date, Time and Location
generate_event_card_details(event_entry) ==
  LET event_data == Get(event_entry, "event_data", <<>>)
      event_date == Get(event_data, "EventDate", <<>>)
      event_time == Get(event_data, "EventTime", <<>>)
      event_location == Get(event_data, "EventLocation", <<"T", "B", "D">>)
      current_status == Get(event_entry, "current_status", "None")
  IN  IF current_status \in {"deferred_pending_match", "deferred_nomatch"}
        THEN <<Piece("original_date", format_display_date(event_date, FALSE),
                     get_event_time_display(event_time)),
               Piece("reschedule",
                     IF current_status = "deferred_pending_match"
                       THEN <<"A", "w", "a", "i", "t", "i", "n", "g", " ", "i", "n", "f", "o",
                              "r", "m", "a", "t", "i", "o", "n">>
                       ELSE <<"N", "o", "n", "e", " ", "f", "o", "u", "n", "d", " ", "a", "f",
                              "t", "e", "r", " ", "g", "r", "a", "c", "e", " ", "p", "e", "r",
                              "i", "o", "d">>,
                     <<>>)>>
        ELSE <<Piece("date", format_display_date(event_date, FALSE), <<>>),
               Piece("time", get_event_time_display(event_time), <<>>),
               Piece("location", event_location, <<>>)>>

\* generate_event_card(event_entry, is_update_card): the elements of the
\* card in the order they are written
generate_event_card(event_entry, is_update_card) ==
  LET event_data == Get(event_entry, "event_data", <<>>)
      comment == Get(event_data, "EventComment", <<>>)
  IN  generate_event_card_header(event_data)
        \o generate_event_card_button(event_entry, is_update_card)
        \o generate_event_card_subtitle(event_entry, is_update_card)
        \o generate_event_card_tags(event_entry, is_update_card)
        \o generate_event_card_details(event_entry)
        \o (IF comment # <<>> THEN <<Piece("comment", comment, <<>>)>> ELSE <<>>)

\* event_data the cards are rendered for: hearings of the export samples, one
\* with an agenda file, one without EventId, one without any field. The
\* texts carry no markup: the card is built without HTML escaping.
AgendaEntry ==
  [EventId |-> 31,
   EventBodyName |-> <<"C", "o", "m", "m", "i", "t", "t", "e", "e", " ", "o", "n", " ", "P",
                       "a", "r", "k", "s">>,
   EventDate |-> <<"2", "0", "2", "4", "-", "0", "4", "-", "0", "2", "T", "0", "0", ":", "0",
                   "0", ":", "0", "0">>,
   EventTime |-> <<"1", ":", "0", "0", " ", "P", "M">>,
   EventAgendaFile |-> <<"h", "t", "t", "p", "s", ":", "/", "/", "l", "e", "g", "i", "s", "t",
                         "a", "r", ".", "e", "x", "a", "m", "p", "l", "e", "/", "a", "g", "e",
                         "n", "d", "a", ".", "p", "d", "f">>,
   EventComment |-> <<"J", "o", "i", "n", "t", " ", "h", "e", "a", "r", "i", "n", "g">>]

AnonymousEntry ==
  [EventBodyName |-> <<"C", "o", "m", "m", "i", "t", "t", "e", "e", " ", "o", "n", " ", "F",
                       "i", "n", "a", "n", "c", "e">>,
   EventDate |-> <<"2", "0", "2", "4", "-", "0", "3", "-", "0", "5", "T", "0", "0", ":", "0",
                   "0", ":", "0", "0">>,
   EventTime |-> <<"1", "0", ":", "0", "0", " ", "A", "M">>]

CardData ==
  {MorningEntry, NoDateEntry, WordDateEntry, NoIdEntry, AgendaEntry, AnonymousEntry, <<>>}

\* values of current_status; "None" is an entry without status
CardStatuses == {"active", "deferred_pending_match", "deferred_nomatch", "archived", "None"}

CardTags ==
  { {}, {"new_hearing_tag"}, {"rescheduled_hearing_tag"}, {"deferred_hearing_tag"},
    {"rescheduled_hearing_tag", "deferred_hearing_tag"} }

OriginalDetails ==
  { <<>>, [original_date |-> <<"2", "0", "2", "4", "-", "0", "2", "-", "2", "7", "T", "0", "0",
                               ":", "0", "0", ":", "0", "0">>, original_time |-> <<"9", ":",
                               "3", "0", " ", "A", "M">>] }

FirstSeen == { <<>>, <<"2", "0", "2", "4", "-", "0", "3", "-", "0", "1", "T", "1", "5", ":",
                       "0", "4", ":", "0", "5", "Z">>, <<"y", "e", "s", "t", "e", "r", "d", "a",
                       "y">> }

\* an entry of processed_data: a status of "None", no tags, no details and
\* no timestamp are keys that are missing
CardEntry(d, status, tags, orig, seen) ==
  [k \in {"event_data"}
        \cup (IF status = "None" THEN {} ELSE {"current_status"})
        \cup (IF tags = {} THEN {} ELSE {"user_facing_tags"})
        \cup (IF orig = <<>> THEN {} ELSE {"original_event_details_if_rescheduled"})
        \cup (IF seen = <<>> THEN {} ELSE {"first_seen_timestamp"}) |->
     CASE k = "event_data" -> d
       [] k = "current_status" -> status
       [] k = "user_facing_tags" -> tags
       [] k = "original_event_details_if_rescheduled" -> orig
       [] k = "first_seen_timestamp" -> seen]

CardEntries ==
  { CardEntry(d, status, tags, orig, seen) :
      d \in CardData, status \in CardStatuses, tags \in CardTags,
      orig \in OriginalDetails, seen \in FirstSeen }

InitCard ==
  /\ NoPage
  /\ \E event_entry \in CardEntries : \E is_update_card \in BOOLEAN :
       call = [op |-> "none", arg |-> <<event_entry, is_update_card>>, res |-> <<>>]

\* one call generate_event_card(event_entry, is_update_card)
RenderCard ==
  /\ call.op = "none"
  /\ call' = [op |-> "generate_event_card", arg |-> call.arg,
              res |-> generate_event_card(call.arg[1], call.arg[2])]
  /\ NoPageChange

NextCard == RenderCard

SpecCard == InitCard /\ [][NextCard]_vars

TypeOK ==
  /\ totalItems \in ItemCounts
  /\ defaultFilter \in FilterOptions
  /\ idx \in 1..Len(hist)
  /\ filterSelect \in FilterOptions \cup {<<>>}
  /\ activeSections \subseteq SectionIds

(* ------------------------------- claims -------------------------------- *)

\* the card with this index is inside the slice of the page
InSlice(index, page) ==
  (page - 1) * itemsPerPage <= index /\ index < page * itemsPerPage

\* the section id a filter name stands for
SectionOf(name) == <<"updates", "-">> \o filterNameToId(name)

UserEvents == {"filter", "page", "next", "prev"}

\* C1: after load, through page-link, Next/Previous, filter and popstate
\* events, 1 <= currentPage <= totalPages, for every number of hearings
\* including zero.
C1_PageInRange == Loaded => (1 <= currentPage /\ currentPage <= totalPages)

\* C2: window.showPage called with any integer leaves currentPage within
\* [1, totalPages] (stated for a list that has at least one page).
C2_GoToClamped ==
  (lastEvent = "global" /\ totalPages >= 1)
    => (1 <= currentPage /\ currentPage <= totalPages)

\* C3: after load the visible cards are exactly those whose index lies in
\* [(currentPage-1)*itemsPerPage, currentPage*itemsPerPage); every other card
\* is hidden.
C3_VisibleSlice ==
  Loaded =>
    \A index \in 0..(totalItems - 1) :
      /\ display[index] = "block" <=> InSlice(index, currentPage)
      /\ display[index] = "none" <=> ~InSlice(index, currentPage)

C3_Witness ==
  /\ lastEvent = "popstate"
  /\ totalItems = 57 /\ totalPages = 3 /\ currentPage = 3
  /\ itemsPerPage = 25
  /\ Cardinality({index \in 0..(totalItems - 1) : display[index] = "block"}) = 7

\* C4: a Next click moves to min(currentPage + 1, totalPages) and a Previous
\* click to max(currentPage - 1, 1); at the boundary the click leaves
\* currentPage, the visible cards and the URL unchanged.
C4_NextPrevNoWrap ==
  [][ /\ NextClick =>
           /\ currentPage' = Min(currentPage + 1, totalPages)
           /\ currentPage = totalPages => UNCHANGED <<currentPage, display, hist, idx>>
      /\ PrevClick =>
           /\ currentPage' = Max(currentPage - 1, 1)
           /\ currentPage = 1 => UNCHANGED <<currentPage, display, hist, idx>>
    ]_vars

C4_Witness ==
  /\ lastEvent = "noop"
  /\ totalPages >= 2 /\ currentPage = totalPages

\* a page parameter written as a plain decimal integer
IsDecimal(s) ==
  /\ s # <<>>
  /\ \A k \in 1..Len(s) : s[k] \in DecDigits \/ (k = 1 /\ s[k] = "-" /\ Len(s) > 1)

RECURSIVE DecimalValue(_)
DecimalValue(s) ==
  IF s = <<>> THEN 0
  ELSE IF Head(s) = "-" THEN 0 - DecimalValue(Tail(s))
  ELSE DecimalValue(SubSeq(s, 1, Len(s) - 1)) * 10 + DigitVal(s[Len(s)])

C6_URLAfterChange ==
  lastEvent \in UserEvents =>
    /\ location.hasFilter /\ location.filter = filterSelect
    /\ currentPage > 1 =>
         (location.hasPage /\ location.page = NumberToString(currentPage))
    /\ currentPage = 1 => ~location.hasPage

C6_Witness ==
  /\ lastEvent = "filter"
  /\ currentPage = 2
  /\ location = [hasFilter |-> TRUE, filter |-> last_30_days,
                 hasPage |-> TRUE, page |-> <<"2">>]

\* C7: after filter f and page p were set through the UI, reading the URL
\* back the way load and popstate read it gives filter f and page p.
C7_RoundTrip ==
  (lastEvent \in UserEvents /\ filterSelect \in FilterOptions
     /\ 1 <= currentPage /\ currentPage <= totalPages) =>
    /\ FilterFromURL(location, defaultFilter) = filterSelect
    /\ PageFromURL(location) = currentPage
    /\ ClampPage(PageFromURL(location), totalPages) = currentPage

C7_Witness ==
  /\ lastEvent \in UserEvents
  /\ filterSelect = last_7_days /\ currentPage = 3
  /\ location = [hasFilter |-> TRUE, filter |-> last_7_days,
                 hasPage |-> TRUE, page |-> <<"3">>]

\* C8: a popstate handler re-applies selector, active section, currentPage
\* and visible cards from the URL of the entry it lands on, and writes
\* neither the URL nor the history.
C8_PopStateReadOnly ==
  [][ lastEvent' = "popstate" =>
        /\ hist' = hist
        /\ wroteURL' = FALSE
        /\ filterSelect' = SelectAssign(FilterFromURL(hist[idx'], defaultFilter))
        /\ activeSections' = showUpdatesSection(FilterFromURL(hist[idx'], defaultFilter))
        /\ currentPage' = ClampPage(PageFromURL(hist[idx']), totalPages)
        /\ \A index \in 0..(totalItems - 1) :
             display'[index] = IF InSlice(index, currentPage') THEN "block" ELSE "none"
    ]_vars

C8_Witness ==
  /\ lastEvent = "popstate"
  /\ location.hasPage /\ location.page = <<"9", "9">>
  /\ totalPages = 3 /\ currentPage = 3
  /\ filterSelect = since_last_run

\* C9: page clicks, Next/Previous clicks and filter changes replace the
\* current history entry and never push one: the number of entries, the
\* active entry's position and every other entry stay as they were.
C9_ReplaceNotPush ==
  [][ lastEvent' \in UserEvents \cup {"noop"} =>
        /\ Len(hist') = Len(hist)
        /\ idx' = idx
        /\ \A j \in 1..Len(hist) : j # idx => hist'[j] = hist[j]
    ]_vars

C9_Witness ==
  /\ lastEvent = "next"
  /\ Len(hist) = 2 /\ idx = 1
  /\ location.hasPage /\ location.page = <<"2">>
  /\ hist[2] \in HistoryURLs

\* C10 as stated: after load and every later handler the selector and the
\* active window equal the URL's filter parameter when it is present and the
\* default when it is absent (stated for the states in which the selector
\* holds one of its three options).
C10_URLIsTruthOriginal ==
  (Loaded /\ filterSelect \in FilterOptions) =>
    IF location.hasFilter
      THEN filterSelect = location.filter
             /\ activeSections = {SectionOf(location.filter)}
      ELSE filterSelect = defaultFilter
             /\ activeSections = {SectionOf(defaultFilter)}

\* C10 amended: after load and every later handler the selector and the
\* active window equal the URL's filter parameter when it is present and is
\* one of the three windows, and equal the default when the URL has no
\* filter parameter.
C10_URLIsTruth ==
  Loaded =>
    /\ (location.hasFilter /\ location.filter \in FilterOptions) =>
         (filterSelect = location.filter
            /\ activeSections = {SectionOf(location.filter)})
    /\ ~location.hasFilter =>
         (filterSelect = defaultFilter
            /\ activeSections = {SectionOf(defaultFilter)})

C10_Witness ==
  /\ lastEvent = "popstate"
  /\ ~location.hasFilter
  /\ defaultFilter = last_30_days /\ filterSelect = last_30_days
  /\ activeSections = {<<"updates", "-", "last", "-", "30", "-", "days">>}

\* C11: whatever the URL's filter parameter is, after load and after popstate
\* the selector holds one of the three windows and that window's section is
\* the one shown.
C11_ValidWindowShown ==
  lastEvent \in {"load", "popstate"} =>
    \E f \in FilterOptions :
      filterSelect = f /\ activeSections = {SectionOf(f)}

\* C12 as stated: after a user-initiated filter change currentPage is 1 and
\* the URL carries no page parameter.
C12_FilterResetsPageOriginal ==
  lastEvent = "filter" => (currentPage = 1 /\ ~location.hasPage)

\* C12 amended: a user-initiated filter change leaves currentPage and the
\* visible cards as they were, and the URL it writes carries page equal to
\* that currentPage when it exceeds 1 and no page parameter otherwise.
C12_FilterKeepsPage ==
  [][ lastEvent' = "filter" =>
        /\ currentPage' = currentPage
        /\ display' = display
        /\ currentPage > 1 =>
             (hist'[idx'].hasPage /\ hist'[idx'].page = NumberToString(currentPage))
        /\ currentPage <= 1 => ~hist'[idx'].hasPage
    ]_vars

C12_Witness ==
  /\ lastEvent = "filter"
  /\ filterSelect = last_7_days /\ currentPage = 3
  /\ location.hasPage /\ location.page = <<"3">>
  /\ \A index \in 50..56 : display[index] = "block"

\* C13: no handler of the page (load, filter change, page link, Next,
\* Previous, popstate, Add to Calendar) ends with an uncaught exception,
\* whatever the hearing's data and the URL's parameters are.
C13_NoUncaught == ~threw

(* ----------------------- reading a saved calendar ---------------------- *)

\* positions of the CR of every CRLF of a file
LineBreaks(content) ==
  {i \in 1..(Len(content) - 1) : content[i] = "CR" /\ content[i + 1] = "LF"}

\* the physical lines of a file: the octets between two CRLF
PhysicalLines(content) ==
  LET breaks == LineBreaks(content)
      starts == {1} \cup {i + 2 : i \in breaks}
      stop(s) == IF \E i \in breaks : i >= s
                   THEN (CHOOSE i \in breaks : i >= s /\ \A j \in breaks : j >= s => i <= j) - 1
                   ELSE Len(content)
  IN  {SubSeq(content, s, stop(s)) : s \in starts}

StartsWith(s, prefix) ==
  Len(s) >= Len(prefix) /\ SubSeq(s, 1, Len(prefix)) = prefix

\* the values of the physical lines that begin with a property name
ValuesOf(content, name) ==
  {SubSeq(l, Len(name) + 1, Len(l)) : l \in {x \in PhysicalLines(content) : StartsWith(x, name)}}

\* YYYYMMDDTHHMMSSZ
IsUTCBasic(v) ==
  /\ Len(v) = 16
  /\ AllDigits(SubSeq(v, 1, 8)) /\ v[9] = "T"
  /\ AllDigits(SubSeq(v, 10, 15)) /\ v[16] = "Z"

\* the click that ran last: its id and its two readings of the clock
ClickedId == call.arg[1]
ClickedNow == call.arg[2]
ClickedNow2 == call.arg[3]
ClickedKnown == lastEvent = "calendar" /\ ClickedId \in DOMAIN eventData

\* C14: the export of a hearing always produces a document with a
\* well-formed DTSTART, and when the hearing's date and time do not combine
\* into a valid instant (no date, a malformed date, a time that is none) that
\* DTSTART is the current instant.
C14_FallsBackToNow ==
  ClickedKnown =>
    LET e == eventData[ClickedId]
        d == parseEventDateTime(e.EventDate, e.EventTime, ClickedNow2, tzOffset)
    IN  /\ ~threw /\ download.saved
        /\ \E v \in ValuesOf(download.content, <<"D", "T", "S", "T", "A", "R", "T",
                                                 ":">>) : IsUTCBasic(v)
        /\ (e.EventDate = <<>> \/ ~d.valid) =>
             ValuesOf(download.content, <<"D", "T", "S", "T", "A", "R", "T",
                                          ":">>) = {ISOBasic(ClickedNow2)}

\* C15: Add to Calendar for an id that has no entry in the table notifies the
\* user and does nothing else: no file is saved and the page's state stays
\* as it was.
C15_UnknownIdOnlyNotifies ==
  [][ (lastEvent' = "calendar" /\ call'.arg[1] \notin DOMAIN eventData) =>
        /\ alertMsg' = <<"E", "v", "e", "n", "t", " ", "d", "a", "t", "a", " ", "n", "o", "t",
                         " ", "f", "o", "u", "n", "d">>
        /\ ~threw'
        /\ download' = download
        /\ eventData' = eventData
        /\ UNCHANGED <<hist, idx, filterSelect, activeSections, currentPage,
                       totalPages, display, pag>>
    ]_vars

\* a click with an unknown id after a successful export, on page 2
C15_Witness ==
  /\ lastEvent = "calendar" /\ ClickedId = UnknownId
  /\ ClickedId \notin DOMAIN eventData
  /\ alertMsg = <<"E", "v", "e", "n", "t", " ", "d", "a", "t", "a", " ", "n", "o", "t", " ",
                  "f", "o", "u", "n", "d">>
  /\ download.saved /\ download.name = <<"h", "e", "a", "r", "i", "n", "g", "-", "1", "2", ".",
                                         "i", "c", "s">>
  /\ currentPage = 2

\* a file with every CRLF that is followed by a space removed, space included
Unfold(content) ==
  LET folds == {i \in LineBreaks(content) : i + 2 <= Len(content) /\ content[i + 2] = " "}
      dropped == folds \cup {i + 1 : i \in folds} \cup {i + 2 : i \in folds}
  IN  Flatten([i \in 1..Len(content) |-> IF i \in dropped THEN <<>> ELSE <<content[i]>>],
              1, Len(content))

\* iCalendar TEXT escaping of one character
EscapeTextUnit(c) ==
  CASE c = "\\" -> <<"\\", "\\">>
    [] c = "," -> <<"\\", ",">>
    [] c = ";" -> <<"\\", ";">>
    [] c = "LF" -> <<"\\", "n">>
    [] OTHER -> <<c>>

\* iCalendar TEXT escaping, applied once
EscapeText(s) == Flatten([i \in 1..Len(s) |-> EscapeTextUnit(s[i])], 1, Len(s))

\* the description of a hearing: its topic, or the default one, and after a
\* blank line its comment
DescriptionOf(e) ==
  LET topic == IF e.SyntheticMeetingTopic # <<>> THEN e.SyntheticMeetingTopic
               ELSE <<"N", "Y", "C", " ", "C", "o", "u", "n", "c", "i", "l", " ", "H", "e", "a",
                      "r", "i", "n", "g">>
  IN  IF e.EventComment # <<>> THEN topic \o <<"LF", "LF", "C", "o", "m", "m", "e", "n", "t",
                                               ":", " ">> \o e.EventComment
      ELSE topic

\* C16: in a saved calendar the values of SUMMARY, DESCRIPTION and LOCATION
\* are the hearing's name, description and location with backslash, comma
\* and semicolon backslash-escaped and a newline written as \n, once each.
C16_TextEscaped ==
  (ClickedKnown /\ ~threw) =>
    LET e == eventData[ClickedId]
        c == Unfold(download.content)
        place == IF e.EventLocation # <<>> THEN e.EventLocation ELSE <<"T", "B", "D">>
    IN  /\ ValuesOf(c, <<"S", "U", "M", "M", "A", "R", "Y",
                         ":">>) = {encodeURIComponent(EscapeText(e.EventBodyName))}
        /\ ValuesOf(c, <<"D", "E", "S", "C", "R", "I", "P", "T", "I", "O", "N",
                         ":">>) = {encodeURIComponent(EscapeText(DescriptionOf(e)))}
        /\ ValuesOf(c, <<"L", "O", "C", "A", "T", "I", "O", "N",
                         ":">>) = {encodeURIComponent(EscapeText(place))}

\* C17: every physical line of a saved calendar, that is every run of octets
\* between two CRLF, is at most 75 octets long, also for long values and for
\* values with multi-octet characters.
C17_LinesWithin75Octets ==
  (ClickedKnown /\ ~threw) =>
    \A l \in PhysicalLines(download.content) : Len(l) <= 75

\* number of cuts the folding of a line of n code units makes
FoldCount(n) == IF n <= WrapFirst THEN 0 ELSE CeilDiv(n - WrapFirst, WrapNext)

\* C18: for a content line of any length the folding loop ends, and removing
\* every CRLF-plus-space from the folded line gives back the line, nothing
\* lost, doubled or moved at a cut.
C18_FoldRoundTrip ==
  call.op = "wrapICalLine" =>
    /\ Unfold(call.res) = call.arg
    /\ Len(call.res) = Len(call.arg) + 3 * FoldCount(Len(call.arg))

\* a line folded three times whose first continuation begins with a space
C18_Witness ==
  /\ call.op = "wrapICalLine"
  /\ Len(call.arg) = WrapFirst + 2 * WrapNext + 1
  /\ call.arg[WrapFirst + 1] = " "
  /\ Len(call.res) = Len(call.arg) + 9
  /\ SubSeq(call.res, WrapFirst + 1, WrapFirst + 4) = <<"CR", "LF", " ", " ">>

(* ------------------------- shapes of time texts ------------------------ *)

\* the fields of a text between its separators
FieldsBy(s, sep) ==
  LET cuts == {i \in 1..Len(s) : s[i] = sep}
      starts == {1} \cup {i + 1 : i \in cuts}
      stop(b) == IF \E i \in cuts : i >= b
                   THEN (CHOOSE i \in cuts : i >= b /\ \A j \in cuts : j >= b => i <= j) - 1
                   ELSE Len(s)
      nth(k) == CHOOSE b \in starts : Cardinality({c \in starts : c < b}) = k - 1
  IN  [k \in 1..Cardinality(starts) |-> SubSeq(s, nth(k), stop(nth(k)))]

Fields(s) == FieldsBy(s, ":")

\* a number of one or two digits within lo..hi
IsNumber(f, lo, hi) ==
  Len(f) \in 1..2 /\ AllDigits(f) /\ DigitsValue(f) \in lo..hi

\* a text without the blanks it ends with
RECURSIVE TrimRight(_)
TrimRight(s) ==
  IF s # <<>> /\ s[Len(s)] = " " THEN TrimRight(SubSeq(s, 1, Len(s) - 1)) ELSE s

\* "h:mm AM/PM": an hour of the 12-hour clock, minutes, blanks, AM or PM
ShapeHourMinuteAmPm(s) ==
  /\ Len(Fields(s)) = 2
  /\ IsNumber(Fields(s)[1], 1, 12)
  /\ LET f == Fields(s)[2]
         n == Len(f)
     IN  /\ n >= 4
         /\ f[n - 1] \in {"A", "a", "P", "p"} /\ f[n] \in {"M", "m"}
         /\ f[n - 2] = " "
         /\ IsNumber(TrimRight(SubSeq(f, 1, n - 2)), 0, 59)

\* "HH:MM:SS" and "HH:MM" of the 24-hour clock
ShapeHourMinuteSecond(s) ==
  /\ Len(Fields(s)) = 3
  /\ IsNumber(Fields(s)[1], 0, 23)
  /\ IsNumber(Fields(s)[2], 0, 59)
  /\ IsNumber(Fields(s)[3], 0, 59)

ShapeHourMinute(s) ==
  /\ Len(Fields(s)) = 2
  /\ IsNumber(Fields(s)[1], 0, 23)
  /\ IsNumber(Fields(s)[2], 0, 59)

\* hh:mm AM/PM of an hour of the 24-hour clock
Canonical(hour, minute) ==
  LET h12 == IF hour \in {0, 12} THEN 12 ELSE IF hour > 12 THEN hour - 12 ELSE hour
  IN  PadStart2(h12) \o <<":">> \o PadStart2(minute) \o <<" ">>
        \o (IF hour >= 12 THEN <<"P", "M">> ELSE <<"A", "M">>)

\* the hour of the 24-hour clock that an hour with AM or PM is
HourOf(h12, mark) ==
  IF mark \in {"P", "p"} THEN (IF h12 = 12 THEN 12 ELSE h12 + 12)
  ELSE (IF h12 = 12 THEN 0 ELSE h12)

\* C19: get_event_time_display returns "Time TBD" for an absent or empty
\* time; for a text of the shape "h:mm AM/PM", else "HH:MM:SS", else "HH:MM"
\* it returns that time as hh:mm AM/PM (so "14:30:00" and "2:30 PM" both give
\* "02:30 PM"); any other text is returned unchanged.
C19_TimeDisplay ==
  call.op = "get_event_time_display" =>
    LET s == call.arg
        f == Fields(s)
    IN  /\ s = <<>> => call.res = <<"T", "i", "m", "e", " ", "T", "B", "D">>
        /\ s \in {<<"1", "4", ":", "3", "0", ":", "0", "0">>, <<"2", ":", "3", "0", " ", "P",
                    "M">>} => call.res = <<"0", "2", ":", "3", "0", " ", "P", "M">>
        /\ IF s = <<>> THEN TRUE
           ELSE IF ShapeHourMinuteAmPm(s)
             THEN call.res =
                    Canonical(HourOf(DigitsValue(f[1]), f[2][Len(f[2]) - 1]),
                              DigitsValue(TrimRight(SubSeq(f[2], 1, Len(f[2]) - 2))))
           ELSE IF ShapeHourMinuteSecond(s)
             THEN call.res = Canonical(DigitsValue(f[1]), DigitsValue(f[2]))
           ELSE IF ShapeHourMinute(s)
             THEN call.res = Canonical(DigitsValue(f[1]), DigitsValue(f[2]))
           ELSE call.res = s

\* "14:30:00" has been displayed
C19_Witness ==
  /\ call.op = "get_event_time_display"
  /\ call.arg = <<"1", "4", ":", "3", "0", ":", "0", "0">>
  /\ call.res = <<"0", "2", ":", "3", "0", " ", "P", "M">>

(* ------------------------- shapes of date texts ------------------------ *)

\* the day of the week by Zeller's congruence: 1 is Monday, 7 is Sunday
ZellerWeekday(y, m, d) ==
  LET mm == IF m <= 2 THEN m + 12 ELSE m
      yy == IF m <= 2 THEN y - 1 ELSE y
      k == yy % 100
      j == yy \div 100
      h == (d + (13 * (mm + 1)) \div 5 + k + k \div 4 + j \div 4 + 5 * j) % 7
  IN  ((h + 5) % 7) + 1

FixedDigits(f, n) == Len(f) = n /\ AllDigits(f)

\* a day that exists, of a year from 1 on
RealDate(y, m, d) ==
  /\ y >= 1 /\ m \in 1..12 /\ d >= 1
  /\ d <= (IF m = 2 THEN (IF (y % 4 = 0 /\ y % 100 # 0) \/ y % 400 = 0 THEN 29 ELSE 28)
           ELSE IF m \in {4, 6, 9, 11} THEN 30 ELSE 31)

\* YYYY-MM-DD, month and day of one or two digits
IsDateOnly(s) ==
  LET f == FieldsBy(s, "-")
  IN  /\ Len(f) = 3
      /\ FixedDigits(f[1], 4)
      /\ IsNumber(f[2], 1, 12) /\ IsNumber(f[3], 1, 31)
      /\ RealDate(DigitsValue(f[1]), DigitsValue(f[2]), DigitsValue(f[3]))

\* a timestamp without the zone it ends with: Z or an offset of hours and
\* minutes
WithoutZone(t) ==
  LET n == Len(t)
  IN  IF n >= 1 /\ t[n] = "Z" THEN SubSeq(t, 1, n - 1)
      ELSE IF /\ n >= 6 /\ t[n - 5] \in {"+", "-"} /\ t[n - 2] = ":"
              /\ FixedDigits(SubSeq(t, n - 4, n - 3), 2)
              /\ FixedDigits(SubSeq(t, n - 1, n), 2)
              /\ DigitsValue(SubSeq(t, n - 4, n - 3)) <= 23
              /\ DigitsValue(SubSeq(t, n - 1, n)) <= 59
        THEN SubSeq(t, 1, n - 6)
      ELSE t

\* seconds, with or without a fraction of three or six digits
IsSeconds(f) ==
  LET parts == FieldsBy(f, ".")
  IN  /\ Len(parts) \in 1..2
      /\ FixedDigits(parts[1], 2) /\ DigitsValue(parts[1]) <= 59
      /\ Len(parts) = 2 => (Len(parts[2]) \in {3, 6} /\ AllDigits(parts[2]))

\* an ISO timestamp: YYYY-MM-DD, the letter T, HH:MM or HH:MM:SS, a zone or
\* none
IsTimestamp(s) ==
  /\ Len(s) >= 16 /\ s[11] = "T"
  /\ LET date == FieldsBy(SubSeq(s, 1, 10), "-")
         clock == Fields(WithoutZone(SubSeq(s, 12, Len(s))))
     IN  /\ Len(date) = 3
         /\ FixedDigits(date[1], 4) /\ FixedDigits(date[2], 2) /\ FixedDigits(date[3], 2)
         /\ RealDate(DigitsValue(date[1]), DigitsValue(date[2]), DigitsValue(date[3]))
         /\ Len(clock) \in 2..3
         /\ FixedDigits(clock[1], 2) /\ DigitsValue(clock[1]) <= 23
         /\ FixedDigits(clock[2], 2) /\ DigitsValue(clock[2]) <= 59
         /\ Len(clock) = 3 => IsSeconds(clock[3])

\* "Weekday, Month DD, YYYY", and " at hh:mm AM/PM" after it when asked for
LongForm(y, m, d, hour, minute, include_time) ==
  WeekdayNames[ZellerWeekday(y, m, d)] \o <<",", " ">> \o MonthNames[m] \o <<" ">>
    \o PadStart2(d) \o <<",", " ">> \o Pad4(y)
    \o (IF include_time THEN <<" ", "a", "t", " ">> \o Canonical(hour, minute) ELSE <<>>)

\* C20: format_display_date returns "TBD" for an absent date; a text with
\* the letter T is read as an ISO timestamp only, any other text as
\* YYYY-MM-DD only; a text that is read so gives "Weekday, Month DD, YYYY",
\* followed by " at hh:mm AM/PM" exactly when the time is asked for; every
\* other text comes back as it is.
C20_DateDisplay ==
  call.op = "format_display_date" =>
    LET s == call.arg[1]
        include_time == call.arg[2]
        date == FieldsBy(IF Len(s) >= 11 /\ s[11] = "T" THEN SubSeq(s, 1, 10) ELSE s, "-")
        clock == Fields(SubSeq(s, 12, Len(s)))
    IN  /\ s = <<>> => call.res = <<"T", "B", "D">>
        /\ (s = <<"2", "0", "2", "4", "-", "0", "3", "-", "0", "5">> /\ ~include_time) =>
             call.res = <<"T", "u", "e", "s", "d", "a", "y", ",", " ", "M", "a", "r", "c", "h",
                          " ", "0", "5", ",", " ", "2", "0", "2", "4">>
        /\ IF s = <<>> THEN TRUE
           ELSE IF \E i \in 1..Len(s) : s[i] = "T"
             THEN IF IsTimestamp(s)
                    THEN call.res =
                           LongForm(DigitsValue(date[1]), DigitsValue(date[2]),
                                    DigitsValue(date[3]), DigitsValue(clock[1]),
                                    DigitsValue(SubSeq(clock[2], 1, 2)), include_time)
                    ELSE call.res = s
           ELSE IF IsDateOnly(s)
             THEN call.res =
                    LongForm(DigitsValue(date[1]), DigitsValue(date[2]),
                             DigitsValue(date[3]), 0, 0, include_time)
           ELSE call.res = s

\* a timestamp has been displayed with its time of day
C20_Witness ==
  /\ call.op = "format_display_date"
  /\ call.arg = <<<<"2", "0", "2", "4", "-", "0", "3", "-", "0", "5", "T", "1", "4", ":", "3",
                    "0">>, TRUE>>
  /\ call.res = <<"T", "u", "e", "s", "d", "a", "y", ",", " ", "M", "a", "r", "c", "h", " ",
                  "0", "5", ",", " ", "2", "0", "2", "4", " ", "a", "t", " ", "0", "2", ":",
                  "3", "0", " ", "P", "M">>

(* --------------------------- instants of a file ------------------------ *)

\* days from 1970-01-01 to the first day of a year, and of a month in it
DaysBeforeYear(y) ==
  365 * (y - 1970) + (y - 1969) \div 4 - (y - 1901) \div 100 + (y - 1601) \div 400

DaysBeforeMonth(y, m) ==
  <<0, 31, 59, 90, 120, 151, 181, 212, 243, 273, 304, 334>>[m]
    + (IF m > 2 /\ ((y % 4 = 0 /\ y % 100 # 0) \/ y % 400 = 0) THEN 1 ELSE 0)

\* seconds from the epoch to a wall-clock time read in UTC
EpochSeconds(y, m, d, hour, minute, second) ==
  (DaysBeforeYear(y) + DaysBeforeMonth(y, m) + d - 1) * 86400
    + hour * 3600 + minute * 60 + second

\* the instant that YYYYMMDDTHHMMSSZ names
InstantOf(v) ==
  EpochSeconds(DigitsValue(SubSeq(v, 1, 4)), DigitsValue(SubSeq(v, 5, 6)),
               DigitsValue(SubSeq(v, 7, 8)), DigitsValue(SubSeq(v, 10, 11)),
               DigitsValue(SubSeq(v, 12, 13)), DigitsValue(SubSeq(v, 14, 15)))

\* the time of day of a hearing, in seconds after local midnight: noon when
\* there is no time, the 12-hour clock when AM or PM is given (12 AM is
\* hour 0, 12 PM is hour 12), the 24-hour clock otherwise
SecondsOfDay(timeStr) ==
  LET f == Fields(timeStr)
  IN  IF timeStr = <<>> THEN 12 * 3600
      ELSE IF ShapeHourMinuteAmPm(timeStr)
        THEN HourOf(DigitsValue(f[1]), f[2][Len(f[2]) - 1]) * 3600
               + DigitsValue(TrimRight(SubSeq(f[2], 1, Len(f[2]) - 2))) * 60
      ELSE DigitsValue(f[1]) * 3600 + DigitsValue(f[2]) * 60
             + (IF Len(f) >= 3 THEN DigitsValue(f[3]) ELSE 0)

\* the instant a hearing starts at, its date and time being local time
StartOf(e, tz) ==
  EpochSeconds(DigitsValue(SubSeq(e.EventDate, 1, 4)),
               DigitsValue(SubSeq(e.EventDate, 6, 7)),
               DigitsValue(SubSeq(e.EventDate, 9, 10)), 0, 0, 0)
    + SecondsOfDay(e.EventTime) - tz * 60

\* C21: in the calendar of a hearing that has a date, DTSTART is the instant
\* of that date at the hearing's time (12 AM being hour 0 and 12 PM hour
\* 12), at local 12:00:00 when there is no time, and DTEND is 3600 seconds
\* later.
C21_StartAndEnd ==
  (ClickedKnown /\ ~threw /\ eventData[ClickedId].EventDate # <<>>) =>
    \E s \in ValuesOf(download.content, <<"D", "T", "S", "T", "A", "R", "T", ":">>) :
      \E en \in ValuesOf(download.content, <<"D", "T", "E", "N", "D", ":">>) :
        /\ ValuesOf(download.content, <<"D", "T", "S", "T", "A", "R", "T", ":">>) = {s}
        /\ ValuesOf(download.content, <<"D", "T", "E", "N", "D", ":">>) = {en}
        /\ IsUTCBasic(s) /\ IsUTCBasic(en)
        /\ InstantOf(s) = StartOf(eventData[ClickedId], tzOffset)
        /\ InstantOf(en) = InstantOf(s) + 3600

\* a hearing at 12:05 am exported east of Greenwich: it starts on the UTC day
\* before
C21_Witness ==
  /\ ClickedKnown /\ ~threw
  /\ eventData[ClickedId].EventTime = <<"1", "2", ":", "0", "5", " ", "a", "m">>
  /\ tzOffset = 330
  /\ ValuesOf(download.content, <<"D", "T", "S", "T", "A", "R", "T", ":">>) = {<<"2", "0", "2",
                                  "4", "0", "2", "2", "8", "T", "1", "8", "3", "5", "0", "0",
                                  "Z">>}
  /\ ValuesOf(download.content, <<"D", "T", "E", "N", "D", ":">>) = {<<"2", "0", "2", "4", "0",
                                  "2", "2", "8", "T", "1", "9", "3", "5", "0", "0", "Z">>}

(* --------------------------------- UID --------------------------------- *)

\* a click that wrote a calendar for a hearing of the page
Exported == ClickedKnown /\ ~threw /\ download.saved

UidOf(content) == ValuesOf(content, <<"U", "I", "D", ":">>)

Occurs(sub, s) ==
  \E i \in 1..(Len(s) - Len(sub) + 1) : SubSeq(s, i, i + Len(sub) - 1) = sub

UpperLetters == <<"A", "B", "C", "D", "E", "F", "G", "H", "I", "J", "K", "L", "M", "N", "O",
                  "P", "Q", "R", "S", "T", "U", "V", "W", "X", "Y", "Z">>
LowerLetters == <<"a", "b", "c", "d", "e", "f", "g", "h", "i", "j", "k", "l", "m", "n", "o",
                  "p", "q", "r", "s", "t", "u", "v", "w", "x", "y", "z">>

LowerCase(s) ==
  [i \in 1..Len(s) |->
     IF \E k \in 1..26 : UpperLetters[k] = s[i]
       THEN LowerLetters[CHOOSE k \in 1..26 : UpperLetters[k] = s[i]]
       ELSE s[i]]

\* the first word of a committee's name: its letters up to the first blank
FirstWord(s) ==
  IF \E i \in 1..Len(s) : s[i] = " "
    THEN SubSeq(s, 1, (CHOOSE i \in 1..Len(s) :
                         s[i] = " " /\ \A j \in 1..(i - 1) : s[j] # " ") - 1)
    ELSE s

\* C23 as stated: the saved file's name ends in .ics and carries the
\* hearing's committee (at least the first word of its name, in either case)
\* and the year of its date.
C23_NameFromCommitteeAndDate ==
  Exported =>
    LET e == eventData[ClickedId]
    IN  /\ Len(download.name) > 4
        /\ SubSeq(download.name, Len(download.name) - 3, Len(download.name)) = <<".", "i", "c",
                                                                                 "s">>
        /\ Occurs(LowerCase(FirstWord(e.EventBodyName)), LowerCase(download.name))
        /\ e.EventDate # <<>> => Occurs(SubSeq(e.EventDate, 1, 4), download.name)

\* C23: the saved file is called hearing-<id>.ics, <id> being the identifier
\* the clicked button passed, in decimal; neither the committee nor the date
\* is in the name.
C23_NameFromId ==
  Exported => download.name = <<"h", "e", "a", "r", "i", "n", "g",
                                "-">> \o NatToString(ClickedId) \o <<".", "i", "c", "s">>

\* the two hearings of one page saved one after the other
C23_Witness ==
  /\ Exported
  /\ ClickedId = 7
  /\ eventData[7].EventBodyName = <<"C", "o", "m", "m", "i", "t", "t", "e", "e", " ", "o", "n",
                                    " ", "A", "g", "i", "n", "g">>
  /\ download.name = <<"h", "e", "a", "r", "i", "n", "g", "-", "7", ".", "i", "c", "s">>

(* ------------------------- who changes what ---------------------------- *)

\* the handlers of page navigation: a page link, Next and Previous (a click
\* on a disabled Next or Previous included)
PageEvents == {"page", "next", "prev", "noop"}

\* the handlers that call showUpdatesSection
FilterEvents == {"load", "filter", "popstate"}

\* C24 as stated: page navigation changes neither the selector's value, nor
\* the active update section, nor the URL's filter parameter, and only the
\* filter controller's handlers change the active update section.
C24_FrameOriginal ==
  [][/\ lastEvent' \in PageEvents =>
          /\ filterSelect' = filterSelect
          /\ activeSections' = activeSections
          /\ location'.hasFilter = location.hasFilter
          /\ location'.filter = location.filter
     /\ activeSections' # activeSections => lastEvent' \in FilterEvents]_vars

\* C24: page navigation changes neither the selector's value nor the active
\* update section; a page change writes the selector's value as the URL's
\* filter parameter (a click on a disabled button writes nothing), and only
\* load, a filter change and popstate change the active update section.
C24_Frame ==
  [][/\ lastEvent' \in PageEvents =>
          /\ filterSelect' = filterSelect
          /\ activeSections' = activeSections
          /\ lastEvent' # "noop" =>
               (location'.hasFilter /\ location'.filter = filterSelect)
          /\ lastEvent' = "noop" => location' = location
     /\ activeSections' # activeSections => lastEvent' \in FilterEvents]_vars

\* a page change on an entry reached by popstate that had no usable filter:
\* a section is active, the selector is empty and the URL now says filter=
C24_Witness ==
  /\ lastEvent \in {"page", "next", "prev"}
  /\ Len(hist) > 1
  /\ filterSelect = <<>>
  /\ activeSections # {}
  /\ location.hasFilter /\ location.filter = <<>>

(* ------------------------------ card claims ---------------------------- *)

Rendered == call.op = "generate_event_card"

CardKinds == {call.res[i].kind : i \in 1..Len(call.res)}

CardStatus == Get(call.arg[1], "current_status", "None")

CardDate == Get(Get(call.arg[1], "event_data", <<>>), "EventDate", <<>>)

\* C25: the card of a deferred hearing has no Date, Time or Location element
\* and no Add to Calendar button, and shows the hearing's date in one
\* element only, the struck-through original date; a card has the button
\* only when it is not an update card, the status is active and EventDate is
\* present.
C25_DeferredCard ==
  Rendered =>
    /\ CardStatus \in {"deferred_pending_match", "deferred_nomatch"} =>
         /\ CardKinds \cap {"date", "time", "location", "button"} = {}
         /\ \E i \in 1..Len(call.res) :
              /\ call.res[i].kind = "original_date"
              /\ call.res[i].text = format_display_date(CardDate, FALSE)
              /\ \A j \in 1..Len(call.res) :
                   call.res[j].kind = "original_date" => j = i
    /\ "button" \in CardKinds =>
         (~call.arg[2] /\ CardStatus = "active" /\ CardDate # <<>>)

\* a deferred hearing with a date, on the list of upcoming hearings
C25_Witness ==
  /\ Rendered
  /\ ~call.arg[2]
  /\ CardStatus = "deferred_nomatch"
  /\ CardDate = <<"2", "0", "2", "4", "-", "0", "3", "-", "0", "5", "T", "0", "0", ":", "0",
                  "0", ":", "0", "0">>
  /\ \E i \in 1..Len(call.res) :
       /\ call.res[i].kind = "original_date"
       /\ call.res[i].text = <<"T", "u", "e", "s", "d", "a", "y", ",", " ", "M", "a", "r", "c",
                               "h", " ", "0", "5", ",", " ", "2", "0", "2", "4">>
       /\ call.res[i].more = <<"1", "0", ":", "0", "0", " ", "A", "M">>
  /\ "button" \notin CardKinds

\* C26: at most one update section is active, and an active section is the
\* one that the selector's value names.
C26_OneSectionOfSelector ==
  /\ Cardinality(activeSections) <= 1
  /\ \A s \in activeSections : s = SectionOf(filterSelect)

\* C27: when the load handler has finished, the URL's filter parameter is
\* present and equals the selector's value, and its page parameter is
\* currentPage, which lies within the pages, when currentPage > 1 and is
\* absent otherwise.
C27_LoadCanonicalizes ==
  lastEvent = "load" =>
    /\ location.hasFilter /\ location.filter = filterSelect
    /\ currentPage >= 1 /\ currentPage <= Max(1, totalPages)
    /\ currentPage > 1 => (location.hasPage /\ location.page = NatToString(currentPage))
    /\ currentPage = 1 => ~location.hasPage

\* 57 hearings loaded at the last page: the URLs that lead there carry page
\* 4, 99 or 3x, and the URL now says page=3
C27_Witness ==
  /\ lastEvent = "load"
  /\ totalItems = MaxItems
  /\ currentPage = totalPages
  /\ location.hasPage /\ location.page = NatToString(CeilDiv(MaxItems, itemsPerPage))
  /\ location.hasFilter /\ location.filter \in FilterOptions

(* --------------------------- buttons and entries ----------------------- *)

\* the Add to Calendar buttons of the page: the hearings of the feed are
\* upcoming hearings with status active
ButtonsOf(i) ==
  generate_event_card_button([event_data |-> feed[i], current_status |-> "active"], FALSE)

\* C28: after load every Add to Calendar button of the page names an entry
\* of eventData, so that a click on one finds its entry and does not end in
\* the notice "Event data not found".
C28_ButtonsHaveEntries ==
  Loaded =>
    \A i \in 1..Len(feed) : \A k \in 1..Len(ButtonsOf(i)) :
      /\ \E id \in DOMAIN eventData : NatToString(id) = ButtonsOf(i)[k].text
      /\ (call.op = "addToCalendar" /\ NatToString(ClickedId) = ButtonsOf(i)[k].text) =>
           ClickedId \in DOMAIN eventData

(* ------------------------------- partition ----------------------------- *)

\* C29: with at least one hearing, the number of pages is the least number
\* of pages of itemsPerPage cards that hold them all, and it is the number
\* the generator computes; every card is shown on exactly one of the pages
\* 1..totalPages and every page shows between 1 and itemsPerPage cards (the
\* pages are gone through when load has set their number, which no later
\* handler changes).
C29_PagesPartition ==
  /\ (Loaded /\ totalItems >= 1) =>
       /\ totalPages * itemsPerPage >= totalItems
       /\ (totalPages - 1) * itemsPerPage < totalItems
       /\ total_pages(totalItems) = totalPages
  /\ (lastEvent = "load" /\ totalItems >= 1) =>
       LET ShownOn == [p \in 1..totalPages |->
                         {i \in 0..(totalItems - 1) :
                            showPage_display(totalItems, p)[i] = "block"}]
       IN  /\ \A i \in 0..(totalItems - 1) :
                Cardinality({p \in 1..totalPages : i \in ShownOn[p]}) = 1
           /\ \A p \in 1..totalPages :
                Cardinality(ShownOn[p]) >= 1 /\ Cardinality(ShownOn[p]) <= itemsPerPage
           /\ {i \in 0..(totalItems - 1) : display[i] = "block"} = ShownOn[currentPage]

\* the longest list loaded at its last page, which is not full
C29_Witness ==
  /\ lastEvent = "load"
  /\ totalItems = MaxItems
  /\ totalPages = 3
  /\ currentPage = totalPages
  /\ Cardinality({i \in 0..(totalItems - 1) : display[i] = "block"})
       = MaxItems - 2 * itemsPerPage

====
